---- MODULE Spec2Model ----
(***************************************************************************)
(* A model of the keiba-dash engine: the seeded random number generator,   *)
(* the Plackett-Luce race simulator, the Monte Carlo worker loop, the      *)
(* payout resolver and the bet validator.                                  *)
(*                                                                         *)
(* Numbers.  TLC's integers are 32-bit and signed, so a JavaScript 32-bit  *)
(* word is kept as a pair <<hi, lo>> of 16-bit limbs (value hi*2^16 + lo). *)
(* The generator's `state` field is a JavaScript double that the code      *)
(* never wraps: it is kept as the same pair with an unbounded hi limb.     *)
(* Strings that are hashed are sequences of character codes; strings that  *)
(* are only compared (odds-table keys, messages) are TLA+ strings.         *)
(***************************************************************************)
EXTENDS Integers, Sequences, FiniteSets, TLC

(***************************************************************************)
(* Bounds of the model.                                                    *)
(***************************************************************************)
\* the largest number of horses in a simulated race
MaxHorses == 3
\* the largest small trial count of an estimation request; the large request
\* has MinBatch + MaxTrials - 1 trials, so that it takes more than one batch
MaxTrials == 2
\* the largest number of bets in a batch
MaxBets == 2
\* the largest number of next() calls on one generator
MaxCalls == 3
\* the largest number of races the store runs
MaxRaces == 1
\* the largest number of odds requests not yet answered to the hook
MaxPending == 2
\* MAX_HISTORY of the predictor, which is 1000, scaled to the model
MAX_HISTORY == 2
\* the largest number of races recorded since the last import, and of
\* predictions evaluated
MaxRecorded == 3

(***************************************************************************)
(* 32-bit word arithmetic on 16-bit limbs.                                 *)
(***************************************************************************)
W16 == 65536

RECURSIVE BitXor(_, _, _)
\* x ^ y on the low n bits
BitXor(x, y, n) ==
  IF n = 0 THEN 0
  ELSE ((x + y) % 2) + 2 * BitXor(x \div 2, y \div 2, n - 1)

RECURSIVE BitOr(_, _, _)
\* x | y on the low n bits
BitOr(x, y, n) ==
  IF n = 0 THEN 0
  ELSE (IF x % 2 = 1 \/ y % 2 = 1 THEN 1 ELSE 0)
       + 2 * BitOr(x \div 2, y \div 2, n - 1)

RECURSIVE Pow2(_)
Pow2(k) == IF k = 0 THEN 1 ELSE 2 * Pow2(k - 1)

Xor32(a, b) == <<BitXor(a[1], b[1], 16), BitXor(a[2], b[2], 16)>>
Or32(a, b) == <<BitOr(a[1], b[1], 16), BitOr(a[2], b[2], 16)>>

\* a >>> k for 0 < k < 16
Shr32(a, k) ==
  <<a[1] \div Pow2(k), (a[2] \div Pow2(k)) + (a[1] % Pow2(k)) * Pow2(16 - k)>>

\* a << 5, truncated to 32 bits
Shl5(a) == <<(a[1] * 32 + a[2] \div 2048) % W16, (a[2] * 32) % W16>>

\* (a + b) mod 2^32
Add32(a, b) ==
  LET lo == a[2] + b[2]
  IN  <<(a[1] + b[1] + lo \div W16) % W16, lo % W16>>

\* (-a) mod 2^32
Neg32(a) ==
  <<(W16 - 1 - a[1] + (IF a[2] = 0 THEN 1 ELSE 0)) % W16, (W16 - a[2]) % W16>>

\* (a - b) mod 2^32
Sub32(a, b) == Add32(a, Neg32(b))

\* the full 32-bit product of two 16-bit limbs, as <<hi, lo>>
MulFull16(x, y) ==
  LET p1 == x * (y \div 256)
      p0 == x * (y % 256)
      s  == (p1 % 256) * 256 + p0
  IN  <<p1 \div 256 + s \div W16, s % W16>>

\* Math.imul: the low 32 bits of a * b
Imul(a, b) ==
  LET ll == MulFull16(a[2], b[2])
      hl == MulFull16(a[1], b[2])
      lh == MulFull16(a[2], b[1])
  IN  <<(ll[1] + hl[2] + lh[2]) % W16, ll[2]>>

\* ToUint32 of a non-negative double kept as <<hi, lo>> with hi unbounded
ToUint32(d) == <<d[1] % W16, d[2]>>

(***************************************************************************)
(* rng.ts: hashString and SeededRNG (Mulberry32).                          *)
(***************************************************************************)
\* one round of the loop: hash = ((hash << 5) - hash + char) & itself
HashStep(hash, char) == Add32(Sub32(Shl5(hash), hash), <<0, char>>)

\* the values of a 32-bit word
Word32 == (0..(W16 - 1)) \X (0..(W16 - 1))

RECURSIVE HashLoop(_, _, _)
\* the for loop from character i on; each round leaves a 32-bit word in hash
HashLoop(str, i, hash) ==
  IF i > Len(str) THEN hash
  ELSE LET h == HashStep(hash, str[i])
       IN  CASE h \in Word32 -> HashLoop(str, i + 1, h)

\* Math.abs of the int32 the word stands for (2^31 stays 2^31)
Abs32(a) == IF a[1] >= 32768 THEN Neg32(a) ELSE a

hashString(str) == Abs32(HashLoop(str, 1, <<0, 0>>))

\* a seed is a string (character codes) or a number
StrSeed(chars) == [t |-> "string", s |-> chars, n |-> <<0, 0>>]
NumSeed(word) == [t |-> "number", s |-> <<>>, n |-> word]

\* constructor: the state after construction
SeededRNG(seed) ==
  LET st == IF seed.t = "string" THEN hashString(seed.s) ELSE seed.n
  IN  IF st = <<0, 0>> THEN <<0, 1>> ELSE st

\* 0x6d2b79f5
Increment == <<27947, 31221>>

\* this.state += 0x6d2b79f5 on a double: no wraparound
AdvanceState(state) ==
  LET lo == state[2] + Increment[2]
  IN  <<state[1] + Increment[1] + lo \div W16, lo % W16>>

\* the 32-bit word whose value / 2^32 next() returns, from the advanced state
Mix(state) ==
  LET t0 == ToUint32(state)
      t1 == Imul(Xor32(t0, Shr32(t0, 15)), Or32(t0, <<0, 1>>))
      t2 == Xor32(t1, Add32(t1, Imul(Xor32(t1, Shr32(t1, 7)), Or32(t1, <<0, 61>>))))
  IN  Xor32(t2, Shr32(t2, 14))

\* faulty next(): the advanced state is used but not stored
RngNextStale(state) == [state |-> state, out |-> Mix(AdvanceState(state))]

\* next(): the new state and the word x with result x / 2^32
RngNext(state) ==
  LET st == AdvanceState(state)
  IN  [state |-> st, out |-> Mix(st)]

(***************************************************************************)
(* Floating-point values that matter to the simulator.  A weight is a      *)
(* non-negative integer or +Infinity (Math.exp overflows); the target of   *)
(* the selection walk is a multiple of 2^-32, +Infinity, -Infinity or NaN. *)
(***************************************************************************)
Fin(v) == [inf |-> FALSE, v |-> v]
Inf == [inf |-> TRUE, v |-> 0]

\* a + b on weights
AddW(a, b) == IF a.inf \/ b.inf THEN Inf ELSE Fin(a.v + b.v)

NaN == [k |-> "nan", q |-> 0, r |-> 0]
PosInf == [k |-> "+inf", q |-> 0, r |-> 0]
NegInf == [k |-> "-inf", q |-> 0, r |-> 0]

\* (out / 2^32) * total: the value (q * 2^16 + r) / 2^32
ScaleByNext(out, total) ==
  IF total.inf
  THEN IF out = <<0, 0>> THEN NaN ELSE PosInf
  ELSE LET lt == out[2] * total.v
       IN  [k |-> "fin", q |-> out[1] * total.v + lt \div W16, r |-> lt % W16]

\* target - w
SubW(target, w) ==
  CASE target.k = "nan" -> NaN
    [] target.k = "+inf" -> IF w.inf THEN NaN ELSE PosInf
    [] target.k = "-inf" -> NegInf
    [] OTHER -> IF w.inf THEN NegInf
                ELSE [k |-> "fin", q |-> target.q - w.v * W16, r |-> target.r]

\* target <= 0 (false for NaN)
LeZero(target) ==
  \/ target.k = "-inf"
  \/ target.k = "fin" /\ (target.q < 0 \/ (target.q = 0 /\ target.r = 0))

(***************************************************************************)
(* race.ts: calculateWeights, sampleByWeight, simulateRace.                *)
(***************************************************************************)
\* Math.exp on the arguments the model uses, rounded to an integer:
\* exp(0..5), and +Infinity from 710 up (the double overflows above 709.78)
ExpTable == <<1, 3, 7, 20, 55, 148>>
MathExp(n) == IF n >= 710 THEN Inf ELSE Fin(ExpTable[n + 1])

\* horses.map((horse) => Math.exp(horse.rating / temperature)); a positive
\* rating over temperature 0 is +Infinity, and so is its exponential
calculateWeights(horses, temperature) ==
  [i \in 1..Len(horses) |->
     IF temperature = 0 THEN Inf ELSE MathExp(horses[i].rating \div temperature)]

RECURSIVE TotalWeight(_, _, _)
\* remainingIndices.reduce((sum, idx) => sum + weights[idx], 0)
TotalWeight(remainingIndices, weights, i) ==
  IF i > Len(remainingIndices) THEN Fin(0)
  ELSE AddW(weights[remainingIndices[i]], TotalWeight(remainingIndices, weights, i + 1))

RECURSIVE WalkFallbackFirst(_, _, _, _)
\* faulty walk: an exhausted pool falls back to its first candidate
WalkFallbackFirst(remainingIndices, weights, i, target) ==
  IF i > Len(remainingIndices) THEN remainingIndices[1]
  ELSE LET t == SubW(target, weights[remainingIndices[i]])
       IN  IF LeZero(t) THEN remainingIndices[i]
           ELSE WalkFallbackFirst(remainingIndices, weights, i + 1, t)

RECURSIVE Walk(_, _, _, _)
\* the for loop of sampleByWeight, from position i on, and its fallback
Walk(remainingIndices, weights, i, target) ==
  IF i > Len(remainingIndices) THEN remainingIndices[Len(remainingIndices)]
  ELSE LET t == SubW(target, weights[remainingIndices[i]])
       IN  IF LeZero(t) THEN remainingIndices[i]
           ELSE Walk(remainingIndices, weights, i + 1, t)

\* the selected index and the generator's state after the one next() call
sampleByWeight(remainingIndices, weights, rng) ==
  LET totalWeight == TotalWeight(remainingIndices, weights, 1)
      nx == RngNext(rng)
  IN  [idx |-> Walk(remainingIndices, weights, 1, ScaleByNext(nx.out, totalWeight)),
       rng |-> nx.state]

\* Array.prototype.indexOf, 1-based; 0 stands for -1
IndexOf(seq, v) ==
  IF \E i \in 1..Len(seq) : seq[i] = v
  THEN CHOOSE i \in 1..Len(seq) : seq[i] = v /\ \A j \in 1..(i - 1) : seq[j] # v
  ELSE 0

\* faulty splice: removes the first element whatever the position
SpliceFirst(seq, pos) == Tail(seq)

\* seq.splice(pos, 1); position -1 (here 0) removes the last element
SpliceOne(seq, pos) ==
  LET p == IF pos = 0 THEN Len(seq) ELSE pos
  IN  [i \in 1..(Len(seq) - 1) |-> IF i < p THEN seq[i] ELSE seq[i + 1]]

\* one iteration of the while loop of simulateRace
DrawStep(horses, weights, st) ==
  LET sel == sampleByWeight(st.remaining, weights, st.rng)
  IN  [rng |-> sel.rng,
       finishOrder |-> Append(st.finishOrder, horses[sel.idx].id),
       remaining |-> SpliceOne(st.remaining, IndexOf(st.remaining, sel.idx))]

\* the locals of simulateRace before its loop
SimLocals(horses, config) ==
  [rng |-> SeededRNG(StrSeed(config.seed)),
   finishOrder |-> <<>>,
   remaining |-> [i \in 1..Len(horses) |-> i]]

RECURSIVE DrawLoop(_, _, _)
DrawLoop(horses, weights, st) ==
  IF Len(st.remaining) = 0 THEN st.finishOrder
  ELSE DrawLoop(horses, weights, DrawStep(horses, weights, st))

simulateRace(horses, config) ==
  DrawLoop(horses, calculateWeights(horses, config.temperature), SimLocals(horses, config))

RECURSIVE Digits(_)
\* String(n) for an integer n >= 0, as character codes
Digits(n) == IF n < 10 THEN <<48 + n>> ELSE Append(Digits(n \div 10), 48 + (n % 10))

\* "-trial-" and "-batch-"
TrialTag == <<45, 116, 114, 105, 97, 108, 45>>
BatchTag == <<45, 98, 97, 116, 99, 104, 45>>

\* an optional string argument: not passed, or passed
NoArg == [given |-> FALSE, s |-> <<>>]
Arg(str) == [given |-> TRUE, s |-> str]

\* `${seed}-trial-${trial}`
TrialSeed(seed, trial) == seed \o TrialTag \o Digits(trial)

\* runMonteCarloSimulations: trial t (0-based) is results[t + 1]
runMonteCarloSimulations(horses, config, numTrials, baseSeed) ==
  LET seed == IF baseSeed.given /\ baseSeed.s # <<>> THEN baseSeed.s ELSE config.seed
  IN  [t \in 1..numTrials |->
         simulateRace(horses, [config EXCEPT !.seed = TrialSeed(seed, t - 1)])]

(***************************************************************************)
(* odds.worker.ts: the batched loop of self.onmessage.                     *)
(***************************************************************************)
\* the smallest batch size
MinBatch == 1000

Max(a, b) == IF a >= b THEN a ELSE b
Min(a, b) == IF a <= b THEN a ELSE b

\* Math.max(1000, Math.floor(numTrials / 10))
BatchSize(numTrials) == Max(MinBatch, numTrials \div 10)

\* `${config.seed}-batch-${batch}`
BatchSeed(config, batch) == config.seed \o BatchTag \o Digits(batch)

\* the simulations of the batch that starts at trial `batch`
BatchSimulations(horses, config, numTrials, batch) ==
  runMonteCarloSimulations(horses, config,
                           Min(BatchSize(numTrials), numTrials - batch),
                           Arg(BatchSeed(config, batch)))

\* Math.round((done / numTrials) * 100)
ProgressPercent(done, numTrials) == (200 * done + numTrials) \div (2 * numTrials)

\* faulty progress: the size of the last batch reported as the trials done
ProgressOfBatch(done, numTrials) ==
  [type |-> "progress", progress |-> ProgressPercent(done, numTrials),
   trials |-> IF done > MinBatch THEN done - MinBatch ELSE done,
   totalTrials |-> numTrials]

\* the WorkerProgress message after `done` simulations
ProgressMessage(done, numTrials) ==
  [type |-> "progress", progress |-> ProgressPercent(done, numTrials),
   trials |-> done, totalTrials |-> numTrials]

(***************************************************************************)
(* Values of the payout resolver and the validator.                        *)
(*                                                                         *)
(* An amount of points (a stake, a payout, a bankroll, a total) is a       *)
(* JavaScript number: a multiple of half a point, NaN, +Infinity or        *)
(* -Infinity.  Odds are a multiple of 0.01, or undefined.  A horse id is a *)
(* positive integer; 0 stands for undefined (an array read out of range).  *)
(***************************************************************************)
Halves(h) == [k |-> "num", h |-> h]
Pts(n) == Halves(2 * n)
NaNAmt == [k |-> "nan", h |-> 0]
PosInfAmt == [k |-> "+inf", h |-> 0]
NegInfAmt == [k |-> "-inf", h |-> 0]

Odds(c) == [k |-> "num", c |-> c]
Undefined == [k |-> "undefined", c |-> 0]

\* a + b
AddAmt(a, b) ==
  CASE a.k = "nan" \/ b.k = "nan" -> NaNAmt
    [] a.k = "num" /\ b.k = "num" -> Halves(a.h + b.h)
    [] a.k = "num" -> b
    [] b.k = "num" -> a
    [] OTHER -> IF a.k = b.k THEN a ELSE NaNAmt

\* -a
NegAmt(a) ==
  CASE a.k = "num" -> Halves(0 - a.h)
    [] a.k = "+inf" -> NegInfAmt
    [] a.k = "-inf" -> PosInfAmt
    [] OTHER -> NaNAmt

\* faulty difference: b - a
SubAmtReversed(a, b) == AddAmt(b, NegAmt(a))

\* a - b
SubAmt(a, b) == AddAmt(a, NegAmt(b))

\* a < b (false when either is NaN)
LtAmt(a, b) ==
  CASE a.k = "nan" \/ b.k = "nan" -> FALSE
    [] a.k = "num" /\ b.k = "num" -> a.h < b.h
    [] a.k = "-inf" -> b.k # "-inf"
    [] OTHER -> b.k = "+inf" /\ a.k # "+inf"

\* a <= b (false when either is NaN)
LeAmt(a, b) == LtAmt(a, b) \/ (a.k # "nan" /\ a = b)

\* a > b
GtAmt(a, b) == LtAmt(b, a)

\* Number.isFinite(a)
IsFinite(a) == a.k = "num"

\* faulty payout arithmetic: Math.round in place of Math.floor
RoundProduct(stake, odds) ==
  CASE stake.k = "nan" \/ odds.k = "undefined" -> NaNAmt
    [] stake.k = "num" -> Pts((stake.h * odds.c + 100) \div 200)
    [] OTHER -> IF odds.c = 0 THEN NaNAmt ELSE stake

\* Math.floor(stake * odds), odds being a number >= 0 or undefined
FloorProduct(stake, odds) ==
  CASE stake.k = "nan" \/ odds.k = "undefined" -> NaNAmt
    [] stake.k = "num" -> Pts((stake.h * odds.c) \div 200)
    [] OTHER -> IF odds.c = 0 THEN NaNAmt ELSE stake

\* seq[i] of a JavaScript array of horse ids, 1-based
At(seq, i) == IF i \in 1..Len(seq) THEN seq[i] ELSE 0

\* `${id}`
IdString(id) == IF id = 0 THEN "undefined" ELSE ToString(id)

\* Map.prototype.get
MapGet(map, key) == IF key \in DOMAIN map THEN Odds(map[key]) ELSE Undefined

\* array[id - 1] of an array of odds
OddsAt(array, id) == IF id \in 1..Len(array) THEN Odds(array[id]) ELSE Undefined

\* faulty lookup: the map's answer without the || 0
KeepValue(value) == value

\* value || 0 on odds
OrZero(value) == IF value.k = "undefined" \/ value.c = 0 THEN Odds(0) ELSE value

(***************************************************************************)
(* odds.ts: the keys of the quinella and trifecta maps.                    *)
(***************************************************************************)
\* faulty key: the ids in the order given
KeyAsGiven(horse1, horse2) == IdString(horse1) \o "-" \o IdString(horse2)

\* an undefined id compares false with <
getQuinellaKey(horse1, horse2) ==
  IF horse1 # 0 /\ horse2 # 0 /\ horse1 < horse2
  THEN IdString(horse1) \o "-" \o IdString(horse2)
  ELSE IdString(horse2) \o "-" \o IdString(horse1)

getTrifectaKey(horse1, horse2, horse3) ==
  IdString(horse1) \o "-" \o IdString(horse2) \o "-" \o IdString(horse3)

(***************************************************************************)
(* payout.ts: win checks, odds lookup, calculateBetPayout, resolveRace.    *)
(***************************************************************************)
\* finishOrder[0] === bet.horses[0]
checkWinBet(bet, finishOrder) == At(finishOrder, 1) = At(bet.horses, 1)

\* finishOrder.length >= 8 ? 3 : 2
PlaceThreshold(finishOrder) == IF Len(finishOrder) >= 8 THEN 3 ELSE 2

\* finishOrder.slice(0, placeThreshold).includes(bet.horses[0])
checkPlaceBet(bet, finishOrder) ==
  \E i \in 1..Min(PlaceThreshold(finishOrder), Len(finishOrder)) :
    finishOrder[i] = At(bet.horses, 1)

\* faulty quinella check: the two horses in finishing order only
checkExactaBet(bet, finishOrder) ==
  /\ At(finishOrder, 1) = At(bet.horses, 1)
  /\ At(finishOrder, 2) = At(bet.horses, 2)

checkQuinellaBet(bet, finishOrder) ==
  LET first == At(finishOrder, 1)
      second == At(finishOrder, 2)
      h1 == At(bet.horses, 1)
      h2 == At(bet.horses, 2)
  IN  (first = h1 /\ second = h2) \/ (first = h2 /\ second = h1)

checkTrifectaBet(bet, finishOrder) ==
  /\ At(finishOrder, 1) = At(bet.horses, 1)
  /\ At(finishOrder, 2) = At(bet.horses, 2)
  /\ At(finishOrder, 3) = At(bet.horses, 3)

getOddsForBet(bet, oddsTable) ==
  CASE bet.type = "win" -> OddsAt(oddsTable.win, At(bet.horses, 1))
    [] bet.type = "place" -> OddsAt(oddsTable.place, At(bet.horses, 1))
    [] bet.type = "quinella" ->
         OrZero(MapGet(oddsTable.quinella,
                       getQuinellaKey(At(bet.horses, 1), At(bet.horses, 2))))
    [] bet.type = "trifecta" ->
         OrZero(MapGet(oddsTable.trifecta,
                       getTrifectaKey(At(bet.horses, 1), At(bet.horses, 2),
                                      At(bet.horses, 3))))

isBetWinner(bet, finishOrder) ==
  CASE bet.type = "win" -> checkWinBet(bet, finishOrder)
    [] bet.type = "place" -> checkPlaceBet(bet, finishOrder)
    [] bet.type = "quinella" -> checkQuinellaBet(bet, finishOrder)
    [] bet.type = "trifecta" -> checkTrifectaBet(bet, finishOrder)

calculateBetPayout(bet, finishOrder, oddsTable) ==
  LET won == isBetWinner(bet, finishOrder)
      odds == getOddsForBet(bet, oddsTable)
  IN  [bet |-> bet,
       won |-> won,
       payout |-> IF won THEN FloorProduct(bet.stake, odds) ELSE Pts(0),
       odds |-> odds]

RECURSIVE ResolveLoop(_, _, _, _, _)
\* the for loop of resolveRace from bet i on, and the return statement
ResolveLoop(bets, finishOrder, oddsTable, i, acc) ==
  IF i > Len(bets)
  THEN [finishOrder |-> finishOrder,
        payouts |-> acc.payouts,
        totalStake |-> acc.totalStake,
        totalPayout |-> acc.totalPayout,
        netProfit |-> SubAmt(acc.totalPayout, acc.totalStake)]
  ELSE LET payout == calculateBetPayout(bets[i], finishOrder, oddsTable)
       IN  ResolveLoop(bets, finishOrder, oddsTable, i + 1,
                       [payouts |-> Append(acc.payouts, payout),
                        totalStake |-> AddAmt(acc.totalStake, bets[i].stake),
                        totalPayout |-> AddAmt(acc.totalPayout, payout.payout)])

resolveRace(bets, finishOrder, oddsTable) ==
  ResolveLoop(bets, finishOrder, oddsTable, 1,
              [payouts |-> <<>>, totalStake |-> Pts(0), totalPayout |-> Pts(0)])

(***************************************************************************)
(* payout.ts: validateBet and validateAllBets.  maxBetPercentage is kept   *)
(* as a whole number of percent (0.5 is 50).                               *)
(***************************************************************************)
\* `${amount}` for a finite amount
AmtString(a) ==
  IF a.h % 2 = 0 THEN ToString(a.h \div 2) ELSE ToString(a.h \div 2) \o ".5"

\* totalAfterBet > bankroll * maxBetPercentage, the bankroll being finite or
\* Infinity (the product is then Infinity, or NaN for 0 percent)
OverMaxAllowed(totalAfterBet, bankroll, maxBetPercentage) ==
  CASE bankroll.k = "+inf" -> FALSE
    [] totalAfterBet.k = "num" -> totalAfterBet.h * 100 > bankroll.h * maxBetPercentage
    [] OTHER -> totalAfterBet.k = "+inf"

Valid == [valid |-> TRUE, error |-> "undefined"]
Invalid(error) == [valid |-> FALSE, error |-> error]

\* faulty switch: every horse count is let through
NoCountError(bet) == "ok"

\* the switch on bet.type; "ok" when it breaks
HorseCountError(bet) ==
  CASE bet.type \in {"win", "place"} /\ Len(bet.horses) # 1 -> bet.type \o " bet requires 1 horse"
    [] bet.type = "quinella" /\ Len(bet.horses) # 2 -> "Quinella bet requires 2 horses"
    [] bet.type = "trifecta" /\ Len(bet.horses) # 3 -> "Trifecta bet requires 3 horses"
    [] OTHER -> "ok"

\* faulty running total: the stake of this bet alone
StakeAlone(currentTotalStake, stake) == stake

\* currentTotalStake + bet.stake
TotalAfterBet(currentTotalStake, stake) == AddAmt(currentTotalStake, stake)

validateBet(bet, bankroll, currentTotalStake, maxBetPercentage, minBet) ==
  LET totalAfterBet == TotalAfterBet(currentTotalStake, bet.stake)
  IN  CASE LtAmt(bet.stake, minBet) ->
             Invalid("Minimum bet is " \o AmtString(minBet) \o " points")
        [] LeAmt(bet.stake, Pts(0)) \/ ~IsFinite(bet.stake) ->
             Invalid("Invalid bet amount")
        [] GtAmt(totalAfterBet, bankroll) ->
             Invalid("Insufficient bankroll")
        [] OverMaxAllowed(totalAfterBet, bankroll, maxBetPercentage) ->
             Invalid("Maximum bet per race is " \o ToString(maxBetPercentage)
                     \o "% of bankroll")
        [] Len(bet.horses) = 0 ->
             Invalid("No horses selected")
        [] Cardinality({bet.horses[i] : i \in 1..Len(bet.horses)}) # Len(bet.horses) ->
             Invalid("Cannot select the same horse multiple times")
        [] HorseCountError(bet) # "ok" ->
             Invalid(HorseCountError(bet))
        [] OTHER -> Valid

\* `Bet ${i + 1}: ${validation.error}`, i being 1-based here
ErrorLine(i, error) == "Bet " \o ToString(i) \o ": " \o error

\* faulty loop body: only the first error is kept
AccumulateFirstError(acc, i, validation, stake) ==
  IF ~validation.valid
  THEN IF Len(acc.errors) = 0
       THEN [acc EXCEPT !.errors = Append(@, ErrorLine(i, validation.error))]
       ELSE acc
  ELSE [acc EXCEPT !.totalStake = AddAmt(@, stake)]

\* faulty loop body: the stake is counted whether the bet passed or not
AccumulateAlways(acc, i, validation, stake) ==
  IF ~validation.valid
  THEN [acc EXCEPT !.errors = Append(@, ErrorLine(i, validation.error)),
                   !.totalStake = AddAmt(@, stake)]
  ELSE [acc EXCEPT !.totalStake = AddAmt(@, stake)]

\* the if/else at the end of the loop body: the errors and the running total
Accumulate(acc, i, validation, stake) ==
  IF ~validation.valid
  THEN [acc EXCEPT !.errors = Append(@, ErrorLine(i, validation.error))]
  ELSE [acc EXCEPT !.totalStake = AddAmt(@, stake)]

RECURSIVE ValidateLoop(_, _, _, _, _, _)
\* the for loop of validateAllBets from bet i on, and the return statement
ValidateLoop(bets, bankroll, maxBetPercentage, minBet, i, acc) ==
  IF i > Len(bets)
  THEN [valid |-> Len(acc.errors) = 0, errors |-> acc.errors]
  ELSE ValidateLoop(bets, bankroll, maxBetPercentage, minBet, i + 1,
                    Accumulate(acc, i,
                               validateBet(bets[i], bankroll, acc.totalStake,
                                           maxBetPercentage, minBet),
                               bets[i].stake))

validateAllBets(bets, bankroll, maxBetPercentage, minBet) ==
  IF Len(bets) = 0
  THEN [valid |-> FALSE, errors |-> <<"No bets placed">>]
  ELSE ValidateLoop(bets, bankroll, maxBetPercentage, minBet, 1,
                    [errors |-> <<>>, totalStake |-> Pts(0)])

(***************************************************************************)
(* Probabilities and odds.  A value is an exact non-negative rational      *)
(* n / d in lowest terms, +Infinity (1 / 0) or NaN (0 / 0); the rounding   *)
(* of the doubles is left out.  A margin is a whole number of percent.     *)
(***************************************************************************)
RECURSIVE GCD(_, _)
GCD(a, b) == IF b = 0 THEN a ELSE GCD(b, a % b)

InfRat == [n |-> 1, d |-> 0]
NaNRat == [n |-> 0, d |-> 0]

\* n / d for n >= 0 and d >= 0
Rat(n, d) ==
  IF d = 0 THEN (IF n = 0 THEN NaNRat ELSE InfRat)
  ELSE LET g == GCD(n, d) IN [n |-> n \div g, d |-> d \div g]

IsNaNRat(a) == a.n = 0 /\ a.d = 0
IsInfRat(a) == a.n # 0 /\ a.d = 0

\* a + b
RAdd(a, b) ==
  CASE IsNaNRat(a) \/ IsNaNRat(b) -> NaNRat
    [] IsInfRat(a) \/ IsInfRat(b) -> InfRat
    [] OTHER -> Rat(a.n * b.d + b.n * a.d, a.d * b.d)

\* a * b (0 * Infinity is NaN)
RMul(a, b) ==
  CASE IsNaNRat(a) \/ IsNaNRat(b) -> NaNRat
    [] OTHER -> Rat(a.n * b.n, a.d * b.d)

\* a / b (0 / 0 and Infinity / Infinity are NaN)
RDiv(a, b) ==
  CASE IsNaNRat(a) \/ IsNaNRat(b) -> NaNRat
    [] OTHER -> Rat(a.n * b.d, a.d * b.n)

\* a < b (false when either is NaN)
RLt(a, b) ==
  CASE IsNaNRat(a) \/ IsNaNRat(b) -> FALSE
    [] IsInfRat(a) -> FALSE
    [] IsInfRat(b) -> TRUE
    [] OTHER -> a.n * b.d < b.n * a.d

\* Math.max(a, b) (NaN when either is NaN)
RMax(a, b) ==
  CASE IsNaNRat(a) \/ IsNaNRat(b) -> NaNRat
    [] OTHER -> IF RLt(a, b) THEN b ELSE a

RECURSIVE RSum(_, _)
\* probabilities.reduce((sum, p) => sum + p, 0), from position i on
RSum(seq, i) == IF i > Len(seq) THEN Rat(0, 1) ELSE RAdd(seq[i], RSum(seq, i + 1))

\* a weight of the race model as a value
WeightRat(w) == IF w.inf THEN InfRat ELSE Rat(w.v, 1)

\* 1 + margin
OnePlus(margin) == Rat(100 + margin, 100)

\* the floor of the decimal odds, 1.05
MinOdds == Rat(105, 100)

(***************************************************************************)
(* odds.ts: win odds, the Monte Carlo estimates, calculateOddsTable.       *)
(***************************************************************************)
calculateWinProbabilities(horses, temperature) ==
  LET weights == calculateWeights(horses, temperature)
      ws == [i \in 1..Len(weights) |-> WeightRat(weights[i])]
      totalWeight == RSum(ws, 1)
  IN  [i \in 1..Len(ws) |-> RDiv(ws[i], totalWeight)]

\* faulty overround: the probabilities renormalized, the margin forgotten
normalizeOnly(probabilities, margin) ==
  LET totalProb == RSum(probabilities, 1)
  IN  [i \in 1..Len(probabilities) |-> RDiv(probabilities[i], totalProb)]

applyOverround(probabilities, margin) ==
  LET totalProb == RSum(probabilities, 1)
      inflationFactor == RDiv(OnePlus(margin), totalProb)
  IN  [i \in 1..Len(probabilities) |-> RMul(probabilities[i], inflationFactor)]

\* faulty odds: the reciprocal without the floor
Reciprocal(p) == RDiv(Rat(1, 1), p)

\* Math.max(1.05, 1 / p)
FlooredOdds(p) == RMax(MinOdds, RDiv(Rat(1, 1), p))

\* toDecimalOdds with the default minOdds
toDecimalOdds(probabilities) ==
  [i \in 1..Len(probabilities) |-> FlooredOdds(probabilities[i])]

calculateWinOdds(horses, config) ==
  toDecimalOdds(applyOverround(calculateWinProbabilities(horses, config.temperature),
                               config.margin))

\* placeCounts[horseId - 1]++ counts the ids that are indices of the array
estimatePlaceProbabilities(simulations, numHorses) ==
  LET placeThreshold == IF numHorses >= 8 THEN 3 ELSE 2
      placeCounts ==
        [h \in 1..numHorses |->
           Cardinality({ <<t, i>> \in (1..Len(simulations)) \X (1..placeThreshold) :
                          At(simulations[t], i) = h })]
  IN  [h \in 1..numHorses |-> Rat(placeCounts[h], Len(simulations))]

\* the key line 86 builds from the first two finishers
QuinellaSimKey(finishOrder) ==
  LET first == At(finishOrder, 1)
      second == At(finishOrder, 2)
  IN  IF first # 0 /\ second # 0 /\ first < second
      THEN IdString(first) \o "-" \o IdString(second)
      ELSE IdString(second) \o "-" \o IdString(first)

\* the key line 110 builds from the first three finishers
TrifectaSimKey(finishOrder) ==
  IdString(At(finishOrder, 1)) \o "-" \o IdString(At(finishOrder, 2)) \o "-"
    \o IdString(At(finishOrder, 3))

\* faulty conversion: the counts are divided by the number of keys met
KeyShares(keys) ==
  [k \in { keys[t] : t \in 1..Len(keys) } |->
     Rat(Cardinality({ t \in 1..Len(keys) : keys[t] = k }),
         Cardinality({ keys[t] : t \in 1..Len(keys) }))]

\* the map of the keys met to count / simulations.length
KeyFrequencies(keys) ==
  [k \in { keys[t] : t \in 1..Len(keys) } |->
     Rat(Cardinality({ t \in 1..Len(keys) : keys[t] = k }), Len(keys))]

estimateQuinellaProbabilities(simulations) ==
  KeyFrequencies([t \in 1..Len(simulations) |-> QuinellaSimKey(simulations[t])])

estimateTrifectaProbabilities(simulations) ==
  KeyFrequencies([t \in 1..Len(simulations) |-> TrifectaSimKey(simulations[t])])

\* prob * (1 + config.margin), floored: the body of the two forEach loops
EntryOdds(prob, margin) == FlooredOdds(RMul(prob, OnePlus(margin)))

calculateOddsTable(horses, config, simulations) ==
  LET placeProbs == estimatePlaceProbabilities(simulations, Len(horses))
      quinellaProbs == estimateQuinellaProbabilities(simulations)
      trifectaProbs == estimateTrifectaProbabilities(simulations)
  IN  [win |-> calculateWinOdds(horses, config),
       place |-> toDecimalOdds(applyOverround(placeProbs, config.margin)),
       quinella |-> [k \in DOMAIN quinellaProbs |-> EntryOdds(quinellaProbs[k], config.margin)],
       trifecta |-> [k \in DOMAIN trifectaProbs |-> EntryOdds(trifectaProbs[k], config.margin)]]

\* odds.worker.ts: the result message built from allSimulations.  The
\* quinella and trifecta entries are [key, odds] pairs, kept here as the map
\* from key to odds.
WorkerResultMessage(horses, config, allSimulations) ==
  LET placeProbs == estimatePlaceProbabilities(allSimulations, Len(horses))
      quinellaProbs == estimateQuinellaProbabilities(allSimulations)
      trifectaProbs == estimateTrifectaProbabilities(allSimulations)
  IN  [type |-> "result",
       winOdds |-> calculateWinOdds(horses, config),
       placeOdds |-> toDecimalOdds(applyOverround(placeProbs, config.margin)),
       quinellaOdds |-> [k \in DOMAIN quinellaProbs |-> EntryOdds(quinellaProbs[k], config.margin)],
       trifectaOdds |-> [k \in DOMAIN trifectaProbs |-> EntryOdds(trifectaProbs[k], config.margin)]]

(***************************************************************************)
(* Inputs.                                                                 *)
(***************************************************************************)
\* "test-123", "race-1-17", "a"
Seeds ==
  { <<116, 101, 115, 116, 45, 49, 50, 51>>,
    <<114, 97, 99, 101, 45, 49, 45, 49, 55>>,
    <<97>> }

\* ratings: the nominal range 60..100 and one that overflows Math.exp
Ratings == {60, 80, 100, 20000}

\* the temperature of the standard difficulty
Temperatures == {20}

\* generateHorses numbers the horses 1..N
RECURSIVE HorsesRated(_, _)
HorsesRated(n, ratings) ==
  IF n = 0 THEN {<<>>}
  ELSE { Append(h, [id |-> n, rating |-> r]) : h \in HorsesRated(n - 1, ratings), r \in ratings }

HorseLists == UNION { HorsesRated(n, Ratings) : n \in 1..MaxHorses }

Configs == [seed : Seeds, temperature : Temperatures]

\* estimation requests: full fields of horses rated 60 or 100, two seeds
McHorseLists == HorsesRated(MaxHorses, {60, 100})

\* the margin of the standard difficulty, in percent
StandardMargin == 18

McConfigs ==
  { [seed |-> c.seed, temperature |-> c.temperature, margin |-> StandardMargin] :
      c \in { x \in Configs : Len(x.seed) > 1 } }

\* the margins of the three difficulties, in percent
Margins == {15, StandardMargin, 22}

\* odds requests: fields of 1..MaxHorses horses rated 60, 80 or 100
OddsHorseLists == UNION { HorsesRated(n, {60, 80, 100}) : n \in 1..MaxHorses }

OddsConfigs == [seed : Seeds, temperature : Temperatures, margin : Margins]

TrialCounts == (1..MaxTrials) \cup {MinBatch + MaxTrials - 1}

(***************************************************************************)
(* Inputs of the payout resolver.                                          *)
(***************************************************************************)
\* the field size from which a place bet pays on the first three
BigField == 8

RECURSIVE Perms(_)
\* the finish orders of the horses in set ids
Perms(ids) ==
  IF ids = {} THEN {<<>>}
  ELSE UNION { { <<h>> \o p : p \in Perms(ids \ {h}) } : h \in ids }

\* horses 1..BigField in order, started at horse k + 1
Rotation(k) == [i \in 1..BigField |-> ((i + k - 1) % BigField) + 1]

FinishOrders == Perms(1..MaxHorses) \cup { Rotation(k) : k \in 0..(BigField - 1) }

\* two odds tables for a field of n horses, in hundredths; the maps are sparse
OddsTables(n) ==
  { [win |-> [i \in 1..n |-> 150 * i + 5],
     place |-> [i \in 1..n |-> 20 * i + 105],
     quinella |-> ("1-2" :> 805) @@ ("1-3" :> 615),
     trifecta |-> ("1-2-3" :> 2005)],
    [win |-> [i \in 1..n |-> 1000 - 50 * i],
     place |-> [i \in 1..n |-> 105],
     quinella |-> ("2-3" :> 455),
     trifecta |-> ("3-2-1" :> 5505) @@ ("2-1-3" :> 1215)] }

Bet(type, horses, stake) == [type |-> type, horses |-> horses, stake |-> stake]

PayoutStakes == {Pts(100), Pts(150)}

\* the bets of a single calculateBetPayout call: every type, the horses of
\* the small field and one more
PayoutBets ==
  { Bet(t, <<a>>, s) : t \in {"win", "place"}, a \in 1..(MaxHorses + 1), s \in PayoutStakes }
  \cup { Bet("quinella", <<a, b>>, s) : a \in 1..MaxHorses, b \in 1..MaxHorses, s \in PayoutStakes }
  \cup { Bet("trifecta", <<a, b, c>>, s) :
           a \in 1..MaxHorses, b \in 1..MaxHorses, c \in 1..MaxHorses, s \in PayoutStakes }

\* the bets a resolveRace batch is made of
BatchBets ==
  { Bet("win", <<1>>, s) : s \in PayoutStakes }
  \cup { Bet("place", <<3>>, s) : s \in PayoutStakes }
  \cup { Bet("quinella", <<2, 1>>, s) : s \in PayoutStakes }
  \cup { Bet("trifecta", <<1, 2, 3>>, s) : s \in PayoutStakes }

RECURSIVE Batches(_, _)
\* the sequences of at most n bets of set bets
Batches(bets, n) ==
  IF n = 0 THEN {<<>>}
  ELSE Batches(bets, n - 1)
       \cup { Append(b, x) : b \in { c \in Batches(bets, n - 1) : Len(c) = n - 1 }, x \in bets }

(***************************************************************************)
(* Inputs of the validator.                                                *)
(***************************************************************************)
ValStakes ==
  { Pts(50), Pts(100), Halves(301), Pts(300), Pts(2000), Pts(0), Pts(0 - 100),
    NaNAmt, PosInfAmt }

ValBets ==
  { Bet("win", <<1>>, s) : s \in ValStakes }
  \cup { Bet("win", <<>>, Pts(100)), Bet("win", <<1, 2>>, Pts(100)),
         Bet("place", <<2>>, Pts(100)), Bet("quinella", <<1, 1>>, Pts(100)),
         Bet("quinella", <<1, 2>>, Pts(100)), Bet("quinella", <<1>>, Pts(100)),
         Bet("trifecta", <<1, 2, 3>>, Pts(100)), Bet("trifecta", <<1, 2>>, Pts(100)) }

Bankrolls == {Pts(1000), Pts(400)}
MaxBetPercentages == {50, 100}
MinBets == {Pts(100), Pts(0)}
CurrentTotals == {Pts(0), Pts(300)}

VARIABLES
  simHorses,     \* simulateRace: the horses argument
  simConfig,     \* simulateRace: the config argument
  simWeights,    \* simulateRace: const weights
  simLocals,     \* simulateRace: rng, finishOrder, remainingIndices
  simPc          \* simulateRace: "idle", "loop", "done"

simVars == <<simHorses, simConfig, simWeights, simLocals, simPc>>

VARIABLES
  wkHorses,      \* worker: event.data.horses
  wkConfig,      \* worker: event.data.config
  wkNumTrials,   \* worker: event.data.numTrials
  wkBatch,       \* worker: the loop variable batch
  wkAll,         \* worker: allSimulations
  wkPosted,      \* worker: the messages posted so far, in order
  wkPc           \* worker: "idle", "loop", "done"

wkVars == <<wkHorses, wkConfig, wkNumTrials, wkBatch, wkAll, wkPosted, wkPc>>

VARIABLES
  prFinishOrder, \* resolver: the finishOrder argument
  prOddsTable,   \* resolver: the oddsTable argument
  prCall,        \* resolver: "none", "calculateBetPayout" or "resolveRace"
  prBets,        \* resolver: the bets argument (one bet for calculateBetPayout)
  prReturn       \* resolver: the value returned

prVars == <<prFinishOrder, prOddsTable, prCall, prBets, prReturn>>

VARIABLES
  vlBankroll,          \* validator: the bankroll argument
  vlMaxBetPercentage,  \* validator: the maxBetPercentage argument, in percent
  vlMinBet,            \* validator: the minBet argument
  vlCall,              \* validator: "none", "validateBet" or "validateAllBets"
  vlBets,              \* validator: the bets argument (one bet for validateBet)
  vlCurrentTotalStake, \* validator: the currentTotalStake argument of validateBet
  vlReturn             \* validator: the value returned

vlVars == <<vlBankroll, vlMaxBetPercentage, vlMinBet, vlCall, vlBets,
            vlCurrentTotalStake, vlReturn>>

VARIABLES
  odHorses,      \* odds: the horses argument
  odConfig,      \* odds: the config argument
  odNumTrials,   \* odds: the number of simulations the table is built from
  odCall,        \* odds: "none", "calculateOddsTable" or "worker"
  odSimulations, \* odds: the simulations the table was built from
  odReturn       \* odds: the table built

odVars == <<odHorses, odConfig, odNumTrials, odCall, odSimulations, odReturn>>

VARIABLES
  rgSeed,   \* generators: the seed each instance was constructed from
  rgState,  \* generators: the state field of each instance
  rgOut     \* generators: the words each instance has returned, in order

rgVars == <<rgSeed, rgState, rgOut>>

VARIABLES
  stBankroll,       \* store: bankroll
  stRaceNumber,     \* store: raceNumber
  stHistory,        \* store: history
  stSettings,       \* store: settings
  stCurrentHorses,  \* store: currentHorses
  stCurrentBets,    \* store: currentBets
  stCurrentOdds,    \* store: currentOdds
  stOddsLoading,    \* store: oddsLoading
  stOddsProgress,   \* store: oddsProgress
  stRaceInProgress, \* store: raceInProgress
  stGameOver,       \* store: gameOver
  stReturn          \* store: what the last call returned, if it was runRace

stVars == <<stBankroll, stRaceNumber, stHistory, stSettings, stCurrentHorses,
            stCurrentBets, stCurrentOdds, stOddsLoading, stOddsProgress,
            stRaceInProgress, stGameOver, stReturn>>

VARIABLES
  lgSeed,    \* legacy engine: the seed argument
  lgHorses,  \* legacy engine: the horses argument
  lgCall,    \* legacy engine: "none" or "calculateFinishTimes"
  lgReturn   \* legacy engine: the value returned

lgVars == <<lgSeed, lgHorses, lgCall, lgReturn>>

VARIABLES
  hkLoading,   \* useOddsWorker: the state loading
  hkProgress,  \* useOddsWorker: the state progress
  hkOdds,      \* useOddsWorker: the state odds
  hkRequests,  \* the requests posted to the worker and not yet handled, in order
  hkMessages   \* the messages the worker posted and the hook has not yet received, in order

hkVars == <<hkLoading, hkProgress, hkOdds, hkRequests, hkMessages>>

VARIABLES
  tpArrays,          \* predictor: the arrays by name, "raceHistory" the field's and "exported" the one exportHistory returned
  tpExported,        \* predictor: the name of the array the caller of exportHistory holds, "none" before the call
  tpLastPrediction,  \* predictor: lastPrediction
  tpAccuracy,        \* predictor: predictionAccuracy
  tpRecorded         \* the data points imported and recorded since the last importHistory, in order

tpVars == <<tpArrays, tpExported, tpLastPrediction, tpAccuracy, tpRecorded>>

vars == <<simVars, wkVars, prVars, vlVars, odVars, rgVars, stVars, lgVars, hkVars, tpVars>>

\* a component that takes no part in a specification stays as follows
NoConfig == [seed |-> <<>>, temperature |-> 1]

SimUnused ==
  /\ simHorses = <<>>
  /\ simConfig = NoConfig
  /\ simWeights = <<>>
  /\ simLocals = [rng |-> <<0, 0>>, finishOrder |-> <<>>, remaining |-> <<>>]
  /\ simPc = "unused"

WkUnused ==
  /\ wkHorses = <<>>
  /\ wkConfig = NoConfig
  /\ wkNumTrials = 0
  /\ wkBatch = 0
  /\ wkAll = <<>>
  /\ wkPosted = <<>>
  /\ wkPc = "unused"

OdUnused ==
  /\ odHorses = <<>>
  /\ odConfig = NoConfig
  /\ odNumTrials = 0
  /\ odCall = "unused"
  /\ odSimulations = <<>>
  /\ odReturn = <<>>

RgUnused ==
  /\ rgSeed = <<>>
  /\ rgState = <<>>
  /\ rgOut = <<>>

HkUnused ==
  /\ hkLoading = FALSE
  /\ hkProgress = 0
  /\ hkOdds = <<>>
  /\ hkRequests = <<>>
  /\ hkMessages = <<>>

TpUnused ==
  /\ tpArrays = <<>>
  /\ tpExported = "unused"
  /\ tpLastPrediction = <<>>
  /\ tpAccuracy = <<>>
  /\ tpRecorded = <<>>

LgUnused ==
  /\ lgSeed = <<0, 0>>
  /\ lgHorses = <<>>
  /\ lgCall = "unused"
  /\ lgReturn = <<>>

StUnused ==
  /\ stBankroll = Pts(0)
  /\ stRaceNumber = 0
  /\ stHistory = <<>>
  /\ stSettings = <<>>
  /\ stCurrentHorses = <<>>
  /\ stCurrentBets = <<>>
  /\ stCurrentOdds = <<>>
  /\ stOddsLoading = FALSE
  /\ stOddsProgress = 0
  /\ stRaceInProgress = FALSE
  /\ stGameOver = FALSE
  /\ stReturn = <<>>

PrUnused ==
  /\ prFinishOrder = <<>>
  /\ prOddsTable = <<>>
  /\ prCall = "unused"
  /\ prBets = <<>>
  /\ prReturn = <<>>

VlUnused ==
  /\ vlBankroll = Pts(0)
  /\ vlMaxBetPercentage = 0
  /\ vlMinBet = Pts(0)
  /\ vlCall = "unused"
  /\ vlBets = <<>>
  /\ vlCurrentTotalStake = Pts(0)
  /\ vlReturn = <<>>

(***************************************************************************)
(* Specification of one simulateRace call, one loop iteration per step.    *)
(***************************************************************************)
SimIdle ==
  /\ simWeights = <<>>
  /\ simLocals = [rng |-> <<0, 0>>, finishOrder |-> <<>>, remaining |-> <<>>]
  /\ simPc = "idle"

InitRace ==
  /\ simHorses \in HorseLists
  /\ simConfig \in Configs
  /\ SimIdle
  /\ WkUnused
  /\ PrUnused
  /\ VlUnused
  /\ OdUnused
  /\ RgUnused
  /\ StUnused
  /\ LgUnused
  /\ HkUnused
  /\ TpUnused

\* the statements before the loop
SimBegin ==
  /\ simPc = "idle"
  /\ simWeights' = calculateWeights(simHorses, simConfig.temperature)
  /\ simLocals' = SimLocals(simHorses, simConfig)
  /\ simPc' = "loop"
  /\ UNCHANGED <<simHorses, simConfig, wkVars, prVars, vlVars, odVars, rgVars, stVars, lgVars, hkVars, tpVars>>

\* one iteration of while (remainingIndices.length > 0)
SimDraw ==
  /\ simPc = "loop"
  /\ Len(simLocals.remaining) > 0
  /\ simLocals' = DrawStep(simHorses, simWeights, simLocals)
  /\ UNCHANGED <<simHorses, simConfig, simWeights, simPc, wkVars, prVars, vlVars, odVars, rgVars, stVars, lgVars, hkVars, tpVars>>

\* return finishOrder
SimReturn ==
  /\ simPc = "loop"
  /\ Len(simLocals.remaining) = 0
  /\ simPc' = "done"
  /\ UNCHANGED <<simHorses, simConfig, simWeights, simLocals, wkVars, prVars, vlVars, odVars, rgVars, stVars, lgVars, hkVars, tpVars>>

NextRace == SimBegin \/ SimDraw \/ SimReturn

SpecRace == InitRace /\ [][NextRace]_vars

(***************************************************************************)
(* Specification of the worker serving one estimation request, one batch   *)
(* per step.                                                               *)
(***************************************************************************)
InitWorker ==
  /\ wkHorses \in McHorseLists
  /\ wkConfig \in McConfigs
  /\ wkNumTrials \in TrialCounts
  /\ wkBatch = 0
  /\ wkAll = <<>>
  /\ wkPosted = <<>>
  /\ wkPc = "idle"
  /\ SimUnused
  /\ PrUnused
  /\ VlUnused
  /\ OdUnused
  /\ RgUnused
  /\ StUnused
  /\ LgUnused
  /\ HkUnused
  /\ TpUnused

\* the handler starts: batchSize, allSimulations = [], batch = 0
WorkerReceive ==
  /\ wkPc = "idle"
  /\ wkBatch' = 0
  /\ wkAll' = <<>>
  /\ wkPc' = "loop"
  /\ UNCHANGED <<wkHorses, wkConfig, wkNumTrials, wkPosted, simVars, prVars, vlVars, odVars, rgVars, stVars, lgVars, hkVars, tpVars>>

\* one iteration of for (batch = 0; batch < numTrials; batch += batchSize)
WorkerBatch ==
  /\ wkPc = "loop"
  /\ wkBatch < wkNumTrials
  /\ LET all == wkAll \o BatchSimulations(wkHorses, wkConfig, wkNumTrials, wkBatch)
     IN  /\ wkAll' = all
         /\ wkPosted' = Append(wkPosted, ProgressMessage(Len(all), wkNumTrials))
  /\ wkBatch' = wkBatch + BatchSize(wkNumTrials)
  /\ UNCHANGED <<wkHorses, wkConfig, wkNumTrials, wkPc, simVars, prVars, vlVars, odVars, rgVars, stVars, lgVars, hkVars, tpVars>>

\* after the loop: the result message
WorkerResult ==
  /\ wkPc = "loop"
  /\ wkBatch >= wkNumTrials
  /\ wkPosted' = Append(wkPosted, WorkerResultMessage(wkHorses, wkConfig, wkAll))
  /\ wkPc' = "done"
  /\ UNCHANGED <<wkHorses, wkConfig, wkNumTrials, wkBatch, wkAll, simVars, prVars, vlVars, odVars, rgVars, stVars, lgVars, hkVars, tpVars>>

NextWorker == WorkerReceive \/ WorkerBatch \/ WorkerResult

SpecWorker == InitWorker /\ [][NextWorker]_vars

(***************************************************************************)
(* Specification of one call of the payout resolver.                       *)
(***************************************************************************)
InitPayout ==
  /\ prFinishOrder \in FinishOrders
  /\ prOddsTable \in OddsTables(Len(prFinishOrder))
  /\ prCall = "none"
  /\ prBets = <<>>
  /\ prReturn = <<>>
  /\ SimUnused
  /\ WkUnused
  /\ VlUnused
  /\ OdUnused
  /\ RgUnused
  /\ StUnused
  /\ LgUnused
  /\ HkUnused
  /\ TpUnused

\* calculateBetPayout(bet, finishOrder, oddsTable)
CalculateBetPayout ==
  /\ prCall = "none"
  /\ \E bet \in PayoutBets :
       /\ prBets' = <<bet>>
       /\ prReturn' = calculateBetPayout(bet, prFinishOrder, prOddsTable)
  /\ prCall' = "calculateBetPayout"
  /\ UNCHANGED <<prFinishOrder, prOddsTable, simVars, wkVars, vlVars, odVars, rgVars, stVars, lgVars, hkVars, tpVars>>

\* resolveRace(bets, finishOrder, oddsTable)
ResolveRace ==
  /\ prCall = "none"
  /\ \E bets \in Batches(BatchBets, MaxBets) :
       /\ prBets' = bets
       /\ prReturn' = resolveRace(bets, prFinishOrder, prOddsTable)
  /\ prCall' = "resolveRace"
  /\ UNCHANGED <<prFinishOrder, prOddsTable, simVars, wkVars, vlVars, odVars, rgVars, stVars, lgVars, hkVars, tpVars>>

NextPayout == CalculateBetPayout \/ ResolveRace

SpecPayout == InitPayout /\ [][NextPayout]_vars

(***************************************************************************)
(* Specification of one call of the validator.                             *)
(***************************************************************************)
InitValidate ==
  /\ vlBankroll \in Bankrolls
  /\ vlMaxBetPercentage \in MaxBetPercentages
  /\ vlMinBet \in MinBets
  /\ vlCall = "none"
  /\ vlBets = <<>>
  /\ vlCurrentTotalStake = Pts(0)
  /\ vlReturn = <<>>
  /\ SimUnused
  /\ WkUnused
  /\ PrUnused
  /\ OdUnused
  /\ RgUnused
  /\ StUnused
  /\ LgUnused
  /\ HkUnused
  /\ TpUnused

\* validateBet(bet, bankroll, currentTotalStake, maxBetPercentage, minBet)
ValidateBet ==
  /\ vlCall = "none"
  /\ \E bet \in ValBets, total \in CurrentTotals :
       /\ vlBets' = <<bet>>
       /\ vlCurrentTotalStake' = total
       /\ vlReturn' = validateBet(bet, vlBankroll, total, vlMaxBetPercentage, vlMinBet)
  /\ vlCall' = "validateBet"
  /\ UNCHANGED <<vlBankroll, vlMaxBetPercentage, vlMinBet, simVars, wkVars, prVars, odVars, rgVars, stVars, lgVars, hkVars, tpVars>>

\* validateAllBets(bets, bankroll, maxBetPercentage, minBet)
ValidateAllBets ==
  /\ vlCall = "none"
  /\ \E bets \in Batches(ValBets, MaxBets) :
       /\ vlBets' = bets
       /\ vlReturn' = validateAllBets(bets, vlBankroll, vlMaxBetPercentage, vlMinBet)
  /\ vlCall' = "validateAllBets"
  /\ UNCHANGED <<vlBankroll, vlMaxBetPercentage, vlMinBet, vlCurrentTotalStake,
                 simVars, wkVars, prVars, odVars, rgVars, stVars, lgVars, hkVars, tpVars>>

NextValidate == ValidateBet \/ ValidateAllBets

SpecValidate == InitValidate /\ [][NextValidate]_vars

(***************************************************************************)
(* Properties of simulateRace.                                             *)
(***************************************************************************)
\* C1: for a list of N >= 1 horses with distinct ids and any config,
\* simulateRace returns a sequence of length N in which every horse id
\* occurs exactly once.
FinishOrderIsPermutation ==
  simPc = "done" =>
    /\ Len(simLocals.finishOrder) = Len(simHorses)
    /\ \A h \in 1..Len(simHorses) :
         Cardinality({ i \in 1..Len(simLocals.finishOrder) :
                        simLocals.finishOrder[i] = simHorses[h].id }) = 1

\* a full field has finished in an order other than the order of entry
ShuffledFinish ==
  /\ simPc = "done"
  /\ Len(simHorses) = MaxHorses
  /\ simLocals.finishOrder[1] = simHorses[MaxHorses].id
  /\ simLocals.finishOrder[MaxHorses] # simHorses[1].id

(***************************************************************************)
(* Properties of the worker's batched loop.                                *)
(***************************************************************************)
\* C2: the list of finish orders the worker accumulates over its batches
\* equals the list one unbatched runMonteCarloSimulations call of the same
\* number of trials returns for the same config seed.
BatchedEqualsUnbatched ==
  wkPc = "done" =>
    wkAll = runMonteCarloSimulations(wkHorses, wkConfig, wkNumTrials, NoArg)

(***************************************************************************)
(* The rule table of the bets, written from the finish order alone.        *)
(***************************************************************************)
RuleWins(bet, finishOrder) ==
  LET K == IF Len(finishOrder) >= BigField THEN 3 ELSE 2
  IN  CASE bet.type = "win" -> bet.horses[1] = finishOrder[1]
        [] bet.type = "place" -> \E i \in 1..K : finishOrder[i] = bet.horses[1]
        [] bet.type = "quinella" ->
             {bet.horses[1], bet.horses[2]} = {finishOrder[1], finishOrder[2]}
        [] bet.type = "trifecta" -> bet.horses = SubSeq(finishOrder, 1, 3)

\* the key under which the odds of a quinella or trifecta bet are stored
RuleKey(bet) ==
  IF bet.type = "quinella"
  THEN LET lo == IF bet.horses[1] < bet.horses[2] THEN bet.horses[1] ELSE bet.horses[2]
           hi == IF bet.horses[1] < bet.horses[2] THEN bet.horses[2] ELSE bet.horses[1]
       IN  ToString(lo) \o "-" \o ToString(hi)
  ELSE ToString(bet.horses[1]) \o "-" \o ToString(bet.horses[2]) \o "-"
         \o ToString(bet.horses[3])

\* the bet is a quinella or trifecta whose key the odds table lacks
KeyAbsent(bet, oddsTable) ==
  \/ bet.type = "quinella" /\ RuleKey(bet) \notin DOMAIN oddsTable.quinella
  \/ bet.type = "trifecta" /\ RuleKey(bet) \notin DOMAIN oddsTable.trifecta

\* the table entry of the bet in hundredths, 0 when the table has none
TableEntry(bet, oddsTable) ==
  CASE bet.type = "win" ->
         IF bet.horses[1] \in DOMAIN oddsTable.win THEN oddsTable.win[bet.horses[1]] ELSE 0
    [] bet.type = "place" ->
         IF bet.horses[1] \in DOMAIN oddsTable.place THEN oddsTable.place[bet.horses[1]] ELSE 0
    [] bet.type = "quinella" ->
         IF KeyAbsent(bet, oddsTable) THEN 0 ELSE oddsTable.quinella[RuleKey(bet)]
    [] bet.type = "trifecta" ->
         IF KeyAbsent(bet, oddsTable) THEN 0 ELSE oddsTable.trifecta[RuleKey(bet)]

(***************************************************************************)
(* Properties of calculateBetPayout and resolveRace.                       *)
(***************************************************************************)
\* C3: calculateBetPayout returns payout = floor(stake * odds) when the
\* bet's win condition holds and payout = 0 when it does not, odds being
\* the table entry looked up for the bet.
PayoutIsFloorOrZero ==
  prCall = "calculateBetPayout" =>
    LET bet == prBets[1]
    IN  prReturn.payout =
          IF RuleWins(bet, prFinishOrder)
          THEN Pts((bet.stake.h * TableEntry(bet, prOddsTable)) \div 200)
          ELSE Pts(0)

\* a winning bet whose stake times odds is not a whole number of points
FractionalWin ==
  /\ prCall = "calculateBetPayout"
  /\ RuleWins(prBets[1], prFinishOrder)
  /\ (prBets[1].stake.h * TableEntry(prBets[1], prOddsTable)) % 200 >= 100
  /\ prReturn.payout.h > 0

\* C4: whether a bet wins depends only on its horses and the finish order
\* and follows the rule table: win iff horses[0] = finish[0]; place iff
\* horses[0] is among the first K finishers, K = 3 for 8 or more horses and
\* 2 otherwise; quinella iff the two horses are the first two in either
\* order; trifecta iff the three horses are the first three in order.
WonFollowsRuleTable ==
  prCall = "calculateBetPayout" => prReturn.won = RuleWins(prBets[1], prFinishOrder)

\* a quinella bet naming the first two finishers in reverse order has won
ReversedQuinellaWon ==
  /\ prCall = "calculateBetPayout"
  /\ prBets[1].type = "quinella"
  /\ prBets[1].horses = <<prFinishOrder[2], prFinishOrder[1]>>
  /\ prReturn.won

\* C5: resolving a quinella or trifecta bet whose key is absent from the
\* odds table returns normally with odds = 0 and payout = 0, whatever the
\* finish order.
AbsentKeyPaysZero ==
  (prCall = "calculateBetPayout" /\ KeyAbsent(prBets[1], prOddsTable)) =>
    /\ prReturn.odds = Odds(0)
    /\ prReturn.payout = Pts(0)

\* a bet with an absent key has been resolved on a finish order it matches
AbsentKeyResolved ==
  /\ prCall = "calculateBetPayout"
  /\ KeyAbsent(prBets[1], prOddsTable)
  /\ RuleWins(prBets[1], prFinishOrder)
  /\ prReturn.bet = prBets[1]

\* C6: a quinella or trifecta bet whose key is absent from the odds table
\* is a loss even when its win condition holds: the Payout has won = false.
AbsentKeyIsLoss ==
  (prCall = "calculateBetPayout" /\ KeyAbsent(prBets[1], prOddsTable)) =>
    prReturn.won = FALSE

RECURSIVE SumH(_, _)
\* the sum of the amounts f[i] for i in set S, in half-points
SumH(f, S) ==
  IF S = {} THEN 0
  ELSE LET i == CHOOSE j \in S : TRUE IN f[i].h + SumH(f, S \ {i})

\* C7: resolveRace returns one Payout per bet in the order of the bets,
\* totalStake is the sum of the stakes, totalPayout the sum of the payouts
\* and netProfit = totalPayout - totalStake.
ResolveRaceTotals ==
  prCall = "resolveRace" =>
    LET n == Len(prBets)
        stakes == [i \in 1..n |-> prBets[i].stake]
        paid == [i \in 1..n |-> prReturn.payouts[i].payout]
    IN  /\ Len(prReturn.payouts) = n
        /\ \A i \in 1..n : prReturn.payouts[i].bet = prBets[i]
        /\ prReturn.totalStake = Halves(SumH(stakes, 1..n))
        /\ prReturn.totalPayout = Halves(SumH(paid, 1..n))
        /\ prReturn.netProfit = Halves(SumH(paid, 1..n) - SumH(stakes, 1..n))
        /\ prReturn.finishOrder = prFinishOrder

\* a full batch with a winner among losers has been resolved at a loss
LosingBatchResolved ==
  /\ prCall = "resolveRace"
  /\ Len(prBets) = MaxBets
  /\ prReturn.totalPayout.h > 0
  /\ prReturn.netProfit.h < 0
  /\ prBets[1] # prBets[2]

(***************************************************************************)
(* Properties of validateBet and validateAllBets.                          *)
(***************************************************************************)
\* validateAllBets reported bet i (1-based) in its errors
Reported(errors, i) ==
  LET prefix == "Bet " \o ToString(i) \o ": "
  IN  \E k \in 1..Len(errors) :
        /\ Len(errors[k]) >= Len(prefix)
        /\ SubSeq(errors[k], 1, Len(prefix)) = prefix

\* the stake, in half-points, is within the bankroll and the percentage cap
WithinLimits(h, bankroll, maxBetPercentage) ==
  /\ h <= bankroll.h
  /\ h * 100 <= bankroll.h * maxBetPercentage

\* the stakes of the bets before bet i that validateAllBets did not report
PassedBefore(bets, errors, i) ==
  SumH([j \in 1..Len(bets) |-> bets[j].stake],
       { j \in 1..(i - 1) : ~Reported(errors, j) })

\* C8: when validateAllBets returns valid = true the sum of all stakes is
\* <= bankroll and <= bankroll * maxBetPercentage; a bet whose stake pushes
\* the running total above either limit is rejected even when its own stake
\* is within both limits.
CumulativeStakeWithinLimits ==
  /\ (vlCall = "validateAllBets" /\ vlReturn.valid) =>
       /\ \A i \in 1..Len(vlBets) : vlBets[i].stake.k = "num"
       /\ WithinLimits(SumH([i \in 1..Len(vlBets) |-> vlBets[i].stake], 1..Len(vlBets)),
                       vlBankroll, vlMaxBetPercentage)
  /\ vlCall = "validateAllBets" =>
       \A i \in 1..Len(vlBets) :
         (/\ vlBets[i].stake.k = "num"
          /\ ~WithinLimits(PassedBefore(vlBets, vlReturn.errors, i) + vlBets[i].stake.h,
                           vlBankroll, vlMaxBetPercentage))
           => Reported(vlReturn.errors, i)
  /\ (/\ vlCall = "validateBet"
      /\ vlBets[1].stake.k = "num"
      /\ ~WithinLimits(vlCurrentTotalStake.h + vlBets[1].stake.h,
                       vlBankroll, vlMaxBetPercentage))
       => ~vlReturn.valid

\* the second bet of a batch was rejected for the running total although
\* its own stake is within both limits and the first bet passed
RejectedForRunningTotal ==
  /\ vlCall = "validateAllBets"
  /\ Len(vlBets) = 2
  /\ vlBets[2].stake.k = "num"
  /\ vlBets[2].stake.h >= vlMinBet.h
  /\ vlBets[2].stake.h > 0
  /\ WithinLimits(vlBets[2].stake.h, vlBankroll, vlMaxBetPercentage)
  /\ ~Reported(vlReturn.errors, 1)
  /\ Reported(vlReturn.errors, 2)
  /\ vlBets[2].horses = <<1>>

\* the bets of the batch that validateAllBets did not report, in order
Unreported(bets, errors) ==
  LET F[i \in 0..Len(bets)] ==
        IF i = 0 THEN <<>>
        ELSE IF Reported(errors, i) THEN F[i - 1] ELSE Append(F[i - 1], bets[i])
  IN  F[Len(bets)]

\* C9: the stake of a bet that fails validation is not added to the running
\* total: each bet is checked against the sum of the stakes of the earlier
\* bets that passed, so the bets left once the invalid ones are removed
\* are valid as a batch of their own.
FailedStakeNotCounted ==
  vlCall = "validateAllBets" =>
    /\ \A i \in 1..Len(vlBets) :
         Reported(vlReturn.errors, i) <=>
           ~validateBet(vlBets[i], vlBankroll,
                        Halves(PassedBefore(vlBets, vlReturn.errors, i)),
                        vlMaxBetPercentage, vlMinBet).valid
    /\ LET kept == Unreported(vlBets, vlReturn.errors)
       IN  kept # <<>> =>
             validateAllBets(kept, vlBankroll, vlMaxBetPercentage, vlMinBet).valid

\* a bet passed after an earlier bet failed, and would not have passed had
\* the failed stake been counted
PassedAfterFailure ==
  /\ vlCall = "validateAllBets"
  /\ Len(vlBets) = 2
  /\ Reported(vlReturn.errors, 1)
  /\ ~Reported(vlReturn.errors, 2)
  /\ vlBets[1].stake.k = "num"
  /\ vlBets[1].stake.h >= vlMinBet.h
  /\ ~WithinLimits(vlBets[1].stake.h + vlBets[2].stake.h, vlBankroll, vlMaxBetPercentage)

\* the stake is a finite positive whole number of points, at least minBet
AcceptableStake(stake, minBet) ==
  /\ stake.k = "num"
  /\ stake.h > 0
  /\ stake.h % 2 = 0
  /\ stake.h >= minBet.h

\* C10: validateBet rejects every bet whose stake is not a finite positive
\* integer at least the configured minimum: below the minimum with a
\* message naming the minimum; non-integer, NaN, infinite, zero or negative
\* stakes are rejected too.
BadStakeRejected ==
  (vlCall = "validateBet" /\ ~AcceptableStake(vlBets[1].stake, vlMinBet)) =>
    ~vlReturn.valid

\* the number of horses a bet of the type names
RequiredCount(type) ==
  CASE type \in {"win", "place"} -> 1
    [] type = "quinella" -> 2
    [] type = "trifecta" -> 3

\* the horse list has exactly the required count of distinct ids
LegalHorses(bet) ==
  /\ Len(bet.horses) = RequiredCount(bet.type)
  /\ \A i, j \in 1..Len(bet.horses) : bet.horses[i] = bet.horses[j] => i = j

\* C11: validateBet rejects every bet whose horse list repeats an id or
\* whose length differs from the count its type requires (1 for win and
\* place, 2 for quinella, 3 for trifecta); a bet is accepted only when its
\* list has exactly that count of distinct ids.
IllegalHorsesRejected ==
  vlCall = "validateBet" =>
    /\ ~LegalHorses(vlBets[1]) => ~vlReturn.valid
    /\ vlReturn.valid => LegalHorses(vlBets[1])

\* a bet with a legal stake within both limits was rejected for its horses
RejectedForHorses ==
  /\ vlCall = "validateBet"
  /\ AcceptableStake(vlBets[1].stake, vlMinBet)
  /\ WithinLimits(vlCurrentTotalStake.h + vlBets[1].stake.h, vlBankroll, vlMaxBetPercentage)
  /\ Len(vlBets[1].horses) = 2
  /\ ~LegalHorses(vlBets[1])
  /\ ~vlReturn.valid

(***************************************************************************)
(* The resolver on finish orders that are not permutations of the field.   *)
(***************************************************************************)
\* order holds each of the ids 1..n exactly once
IsPermutation(order, n) ==
  /\ Len(order) = n
  /\ \A h \in 1..n : Cardinality({ i \in 1..Len(order) : order[i] = h }) = 1

RECURSIVE Orders(_, _)
\* the sequences of length n over the ids
Orders(ids, n) ==
  IF n = 0 THEN {<<>>}
  ELSE { Append(o, h) : o \in Orders(ids, n - 1), h \in ids }

\* finish orders of a field of MaxHorses that repeat an id or miss one
MalformedOrders ==
  { o \in Orders(1..MaxHorses, MaxHorses) \cup Orders(1..MaxHorses, MaxHorses - 1) :
      ~IsPermutation(o, MaxHorses) }

InitMalformed ==
  /\ prFinishOrder \in MalformedOrders
  /\ prOddsTable \in OddsTables(MaxHorses)
  /\ prCall = "none"
  /\ prBets = <<>>
  /\ prReturn = <<>>
  /\ SimUnused
  /\ WkUnused
  /\ VlUnused
  /\ OdUnused
  /\ RgUnused
  /\ StUnused
  /\ LgUnused
  /\ HkUnused
  /\ TpUnused

SpecMalformed == InitMalformed /\ [][NextPayout]_vars

\* C12: when the finish order is not a permutation of the horses (a
\* duplicate id or a missing id), resolveRace refuses to proceed: what it
\* yields is a failure, not a RaceResult with computed payouts.
MalformedOrderRefused ==
  (prCall = "resolveRace" /\ ~IsPermutation(prFinishOrder, Len(prOddsTable.win))) =>
    "payouts" \notin DOMAIN prReturn

(***************************************************************************)
(* simulateRace on configuration errors: temperature 0, or no horses.      *)
(***************************************************************************)
ErrorTemperatures == {0}

\* the calls with an empty horse list or a temperature that is not positive
InitConfigError ==
  /\ simHorses \in HorseLists \cup {<<>>}
  /\ simConfig \in [seed : Seeds, temperature : Temperatures \cup ErrorTemperatures]
  /\ Len(simHorses) = 0 \/ simConfig.temperature <= 0
  /\ SimIdle
  /\ WkUnused
  /\ PrUnused
  /\ VlUnused
  /\ OdUnused
  /\ RgUnused
  /\ StUnused
  /\ LgUnused
  /\ HkUnused
  /\ TpUnused

SpecConfigError == InitConfigError /\ [][NextRace]_vars

\* C13: a configuration error aborts: called with temperature <= 0 or with
\* an empty horse list, simulateRace fails and returns no finish order.
ConfigErrorAborts ==
  simPc = "done" => (Len(simHorses) > 0 /\ simConfig.temperature > 0)

(***************************************************************************)
(* Specification of one odds table built from Monte Carlo simulations.     *)
(***************************************************************************)
InitOdds ==
  /\ odHorses \in OddsHorseLists
  /\ odConfig \in OddsConfigs
  /\ odNumTrials \in 1..MaxTrials
  /\ odCall = "none"
  /\ odSimulations = <<>>
  /\ odReturn = <<>>
  /\ SimUnused
  /\ WkUnused
  /\ PrUnused
  /\ VlUnused
  /\ RgUnused
  /\ StUnused
  /\ LgUnused
  /\ HkUnused
  /\ TpUnused

\* calculateOddsTable(horses, config, runMonteCarloSimulations(horses, config, numTrials))
CalculateOddsTable ==
  /\ odCall = "none"
  /\ LET simulations == runMonteCarloSimulations(odHorses, odConfig, odNumTrials, NoArg)
     IN  /\ odSimulations' = simulations
         /\ odReturn' = calculateOddsTable(odHorses, odConfig, simulations)
  /\ odCall' = "calculateOddsTable"
  /\ UNCHANGED <<odHorses, odConfig, odNumTrials, simVars, wkVars, prVars, vlVars, rgVars, stVars, lgVars, hkVars, tpVars>>

\* the worker's handler on a request of one batch: its simulations and the
\* odds of its result message
WorkerOdds ==
  /\ odCall = "none"
  /\ LET allSimulations == BatchSimulations(odHorses, odConfig, odNumTrials, 0)
         result == WorkerResultMessage(odHorses, odConfig, allSimulations)
     IN  /\ odSimulations' = allSimulations
         /\ odReturn' = [win |-> result.winOdds, place |-> result.placeOdds,
                         quinella |-> result.quinellaOdds, trifecta |-> result.trifectaOdds]
  /\ odCall' = "worker"
  /\ UNCHANGED <<odHorses, odConfig, odNumTrials, simVars, wkVars, prVars, vlVars, rgVars, stVars, lgVars, hkVars, tpVars>>

NextOdds == CalculateOddsTable \/ WorkerOdds

SpecOdds == InitOdds /\ [][NextOdds]_vars

(***************************************************************************)
(* Properties of the odds table.                                           *)
(***************************************************************************)
\* max(1.05, d / n): the odds of an inflated probability n / d, n and d >= 0
OddsOfInflated(n, d) ==
  CASE n = 0 -> InfRat
    [] 100 * d < 105 * n -> Rat(105, 100)
    [] OTHER -> Rat(d, n)

\* in how many of the simulations horse h is among the first K finishers
PlacedCount(h) ==
  LET K == IF Len(odHorses) >= BigField THEN 3 ELSE 2
  IN  Cardinality({ t \in 1..Len(odSimulations) :
                     \E i \in 1..K : At(odSimulations[t], i) = h })

\* C14: the margin is applied to each place probability on its own, with
\* no renormalization: the place odds of horse i in the built table equal
\* max(1.05, 1 / (p_i * (1 + m))), p_i being the horse's empirical place
\* frequency.
PlaceOddsPerEntry ==
  odCall \in {"calculateOddsTable", "worker"} =>
    \A h \in 1..Len(odHorses) :
      odReturn.place[h] =
        OddsOfInflated(PlacedCount(h) * (100 + odConfig.margin),
                       Len(odSimulations) * 100)

\* the value is a number (or +Infinity) not below 1.05
AtLeastFloor(e) == e.n # 0 /\ 100 * e.n >= 105 * e.d

\* in how many of the simulations the first two finishers make key k
QuinellaCount(k) ==
  Cardinality({ t \in 1..Len(odSimulations) : QuinellaSimKey(odSimulations[t]) = k })

\* in how many of the simulations the first three finishers make key k
TrifectaCount(k) ==
  Cardinality({ t \in 1..Len(odSimulations) : TrifectaSimKey(odSimulations[t]) = k })

RECURSIVE SumN(_, _)
\* the sum of f over the set S of integers
SumN(f, S) ==
  IF S = {} THEN 0
  ELSE LET i == CHOOSE j \in S : TRUE IN f[i] + SumN(f, S \ {i})

\* C15: every odds value of a built table (win, place, quinella, trifecta)
\* equals max(1.05, 1 / inflated probability) and is never below 1.05.
OddsNeverBelowFloor ==
  odCall \in {"calculateOddsTable", "worker"} =>
    LET N == Len(odHorses)
        T == Len(odSimulations)
        m == 100 + odConfig.margin
        w == [h \in 1..N |-> calculateWeights(odHorses, odConfig.temperature)[h].v]
        c == [h \in 1..N |-> PlacedCount(h)]
    IN  /\ \A h \in 1..N :
             /\ AtLeastFloor(odReturn.win[h])
             /\ odReturn.win[h] = OddsOfInflated(w[h] * m, SumN(w, 1..N) * 100)
             /\ AtLeastFloor(odReturn.place[h])
             /\ odReturn.place[h] = OddsOfInflated(c[h] * m, SumN(c, 1..N) * 100)
        /\ \A k \in DOMAIN odReturn.quinella :
             /\ AtLeastFloor(odReturn.quinella[k])
             /\ odReturn.quinella[k] = OddsOfInflated(QuinellaCount(k) * m, T * 100)
        /\ \A k \in DOMAIN odReturn.trifecta :
             /\ AtLeastFloor(odReturn.trifecta[k])
             /\ odReturn.trifecta[k] = OddsOfInflated(TrifectaCount(k) * m, T * 100)

\* a table holds an entry at the floor and an entry above it
FlooredAndFreeEntries ==
  /\ odCall = "calculateOddsTable"
  /\ Len(odHorses) = MaxHorses
  /\ \E k \in DOMAIN odReturn.quinella : odReturn.quinella[k] = MinOdds
  /\ \E h \in 1..Len(odHorses) : RLt(MinOdds, odReturn.win[h])
  /\ \E h \in 1..Len(odHorses) : odReturn.win[h] = MinOdds

\* the sum over the horses of 1 / winOdds_i
ImpliedTotal ==
  RSum([h \in 1..Len(odHorses) |-> RDiv(Rat(1, 1), odReturn.win[h])], 1)

\* C16 as stated: for any horses and any margin m > 0 the win odds carry
\* an overround: the sum of 1 / winOdds_i is greater than 1, and less than
\* 1.25 for m = 0.18.
WinOddsOverround ==
  odCall \in {"calculateOddsTable", "worker"} =>
    /\ RLt(Rat(1, 1), ImpliedTotal)
    /\ odConfig.margin = StandardMargin => RLt(ImpliedTotal, Rat(125, 100))

\* C16 as amended: the sum of 1 / winOdds_i is at most 1 + m, hence less
\* than 1.25 for m = 0.18, and it is greater than 1 whenever no win odds
\* value is held at the floor 1.05.
OverroundUnlessFloored ==
  odCall \in {"calculateOddsTable", "worker"} =>
    /\ ~RLt(OnePlus(odConfig.margin), ImpliedTotal)
    /\ ~IsNaNRat(ImpliedTotal)
    /\ odConfig.margin = StandardMargin => RLt(ImpliedTotal, Rat(125, 100))
    /\ (\A h \in 1..Len(odHorses) : RLt(MinOdds, odReturn.win[h])) =>
         RLt(Rat(1, 1), ImpliedTotal)

\* the win odds of a full field at the standard margin, none at the floor
UnflooredWinOdds ==
  /\ odCall = "worker"
  /\ Len(odHorses) = MaxHorses
  /\ odConfig.margin = StandardMargin
  /\ \A h \in 1..Len(odHorses) : RLt(MinOdds, odReturn.win[h])
  /\ odHorses[1].rating # odHorses[2].rating

(***************************************************************************)
(* Specification of two SeededRNG instances called in any interleaving.    *)
(***************************************************************************)
Instances == {1, 2}

\* "a", "test-123", 0 and 0xfffffffa
RngSeeds ==
  { StrSeed(<<97>>), StrSeed(<<116, 101, 115, 116, 45, 49, 50, 51>>),
    NumSeed(<<0, 0>>), NumSeed(<<65535, 65530>>) }

\* both instances constructed, no call made yet
InitRng ==
  /\ rgSeed \in [Instances -> RngSeeds]
  /\ rgState = [i \in Instances |-> SeededRNG(rgSeed[i])]
  /\ rgOut = [i \in Instances |-> <<>>]
  /\ SimUnused
  /\ WkUnused
  /\ PrUnused
  /\ VlUnused
  /\ OdUnused
  /\ StUnused
  /\ LgUnused
  /\ HkUnused
  /\ TpUnused

\* one call of next() on instance i
CallNext(i) ==
  /\ Len(rgOut[i]) < MaxCalls
  /\ LET nx == RngNext(rgState[i])
     IN  /\ rgState' = [rgState EXCEPT ![i] = nx.state]
         /\ rgOut' = [rgOut EXCEPT ![i] = Append(@, nx.out)]
  /\ UNCHANGED <<rgSeed, simVars, wkVars, prVars, vlVars, odVars, stVars, lgVars, hkVars, tpVars>>

NextRng == \E i \in Instances : CallNext(i)

SpecRng == InitRng /\ [][NextRng]_vars

\* the state k increments after construction from the seed, limb by limb
StateAfter(seed, k) ==
  LET lo == SeededRNG(seed)[2] + k * 31221
  IN  <<SeededRNG(seed)[1] + k * 27947 + lo \div 65536, lo % 65536>>

\* C17: two SeededRNG instances constructed from the same seed return
\* identical sequences of next() values, and each instance is independent:
\* under any interleaving what an instance returns is what it returns when
\* the other is never called.
SameSeedSameSequence ==
  /\ \A i \in Instances : \A k \in 1..Len(rgOut[i]) :
       rgOut[i][k] = Mix(StateAfter(rgSeed[i], k))
  /\ rgSeed[1] = rgSeed[2] =>
       \A k \in 1..Min(Len(rgOut[1]), Len(rgOut[2])) : rgOut[1][k] = rgOut[2][k]

\* two instances of one seed have both been called to the bound, and the
\* values returned are not all the same
BothCalled ==
  /\ rgSeed[1] = rgSeed[2]
  /\ Len(rgOut[1]) = MaxCalls
  /\ Len(rgOut[2]) = MaxCalls
  /\ rgOut[1][1] # rgOut[1][2]

\* C18: the stored state is a 32-bit counter: after construction and after
\* every call of next() it is an integer in [0, 2^32), each call advancing
\* it by 0x6d2b79f5 with 32-bit wraparound.
StateIs32Bit ==
  \A i \in Instances :
    /\ rgState[i][1] \in 0..65535
    /\ rgState[i][2] \in 0..65535

(***************************************************************************)
(* Properties of the worker's messages.                                    *)
(***************************************************************************)
\* the positions of the messages of a type among the messages posted
PostedOfType(type) == { i \in 1..Len(wkPosted) : wkPosted[i].type = type }

\* the batch size of a request of T trials: a tenth of T, at least 1000
TenthAtLeastThousand(T) == IF T \div 10 > 1000 THEN T \div 10 ELSE 1000

INITIAL_BANKROLL == Pts(10000)
MIN_BET == Pts(100)

DIFFICULTY_CONFIGS ==
  [easy |-> [temperature |-> 25, margin |-> 15],
   standard |-> [temperature |-> 20, margin |-> StandardMargin],
   hard |-> [temperature |-> 15, margin |-> 22]]

DEFAULT_SETTINGS ==
  [difficulty |-> "standard",
   numHorses |-> MaxHorses,
   monteCarloTrials |-> MaxTrials,
   maxBetPercentage |-> 50,
   gameMode |-> "undefined"]

\* currentOdds: null
Null == [k |-> "null"]

\* what a call other than runRace leaves in stReturn
NoCall == [k |-> "none"]

\* runRace: return; and return historyEntry;
ReturnUndefined == [k |-> "undefined"]
ReturnEntry(entry) == [k |-> "entry", entry |-> entry]

\* the values Date.now() takes
Nows == {17}

\* "race-" and "-"
RaceTag == <<114, 97, 99, 101, 45>>
Dash == <<45>>

\* `race-${state.raceNumber}-${Date.now()}`
RaceSeed(raceNumber, now) == RaceTag \o Digits(raceNumber) \o Dash \o Digits(now)

getCurrentRaceConfig(settings, raceNumber, now) ==
  [numHorses |-> settings.numHorses,
   temperature |-> DIFFICULTY_CONFIGS[settings.difficulty].temperature,
   margin |-> DIFFICULTY_CONFIGS[settings.difficulty].margin,
   seed |-> RaceSeed(raceNumber, now),
   difficulty |-> settings.difficulty]

\* the ratings rng.nextRange(60, 100) draws, three of them
RatingCycle == <<60, 80, 100>>

\* generateHorses: the fields it can return for a config whose seed holds the
\* time; ids are 1..numHorses, the ratings are drawn in 60..100
generateHorses(config) ==
  { [i \in 1..config.numHorses |->
       [id |-> i, rating |-> RatingCycle[((i + k) % Len(RatingCycle)) + 1]]] :
    k \in {0, 1} }

\* { ...state.settings, ...newSettings }
MergeSettings(settings, newSettings) ==
  [f \in DOMAIN settings |->
     IF f \in DOMAIN newSettings THEN newSettings[f] ELSE settings[f]]

\* the arguments of updateSettings
SettingsUpdates ==
  { [gameMode |-> "limited"], [gameMode |-> "unlimited"] }

\* the bets the player adds
StoreBets ==
  { Bet("win", <<1>>, Pts(3000)), Bet("win", <<2>>, Pts(3000)) }

\* the table the odds worker delivers
StoreOdds == { t \in OddsTables(MaxHorses) : "1-2" \in DOMAIN t.quinella }

\* state.currentBets.filter((_, i) => i !== index), index 0-based
FilterIndex(bets, index) ==
  IF index >= Len(bets) THEN bets
  ELSE [i \in 1..(Len(bets) - 1) |-> IF i <= index THEN bets[i] ELSE bets[i + 1]]

\* Math.max(0, a)
MaxZero(a) == IF a.k = "nan" THEN NaNAmt ELSE IF LtAmt(a, Pts(0)) THEN Pts(0) ELSE a

\* result.totalStake > 0 ? (result.netProfit / result.totalStake) * 100 : 0,
\* as the fraction n / d in lowest terms, d > 0
Roi(result) ==
  IF GtAmt(result.totalStake, Pts(0)) /\ IsFinite(result.totalStake) /\ IsFinite(result.netProfit)
  THEN LET n == 100 * result.netProfit.h
           d == result.totalStake.h
           g == GCD(IF n < 0 THEN 0 - n ELSE n, d)
       IN  [n |-> n \div g, d |-> d \div g]
  ELSE [n |-> 0, d |-> 1]

\* the validateAllBets call of runRace
RunRaceValidation ==
  validateAllBets(stCurrentBets,
                  IF stSettings.gameMode = "unlimited" THEN PosInfAmt ELSE stBankroll,
                  stSettings.maxBetPercentage,
                  MIN_BET)

\* the history entry runRace builds
\* the history entry numbered one race ahead
HistoryEntryNextRace(config, result) ==
  LET newBankroll == IF stSettings.gameMode = "unlimited"
                     THEN stBankroll
                     ELSE AddAmt(stBankroll, result.netProfit)
  IN  [raceNumber |-> stRaceNumber + 1,
       seed |-> config.seed,
       horses |-> stCurrentHorses,
       bets |-> stCurrentBets,
       result |-> result,
       bankrollBefore |-> stBankroll,
       bankrollAfter |-> newBankroll,
       roi |-> Roi(result)]

HistoryEntry(config, result) ==
  LET newBankroll == IF stSettings.gameMode = "unlimited"
                     THEN stBankroll
                     ELSE AddAmt(stBankroll, result.netProfit)
  IN  [raceNumber |-> stRaceNumber,
       seed |-> config.seed,
       horses |-> stCurrentHorses,
       bets |-> stCurrentBets,
       result |-> result,
       bankrollBefore |-> stBankroll,
       bankrollAfter |-> newBankroll,
       roi |-> Roi(result)]

InitStore ==
  /\ SimUnused
  /\ WkUnused
  /\ PrUnused
  /\ VlUnused
  /\ OdUnused
  /\ RgUnused
  /\ LgUnused
  /\ HkUnused
  /\ TpUnused
  /\ stBankroll = INITIAL_BANKROLL
  /\ stRaceNumber = 1
  /\ stHistory = <<>>
  /\ stSettings = DEFAULT_SETTINGS
  /\ stCurrentHorses = <<>>
  /\ stCurrentBets = <<>>
  /\ stCurrentOdds = Null
  /\ stOddsLoading = FALSE
  /\ stOddsProgress = 0
  /\ stRaceInProgress = FALSE
  /\ stGameOver = FALSE
  /\ stReturn = NoCall

startNewGame ==
  /\ \E now \in Nows :
       \E horses \in generateHorses(getCurrentRaceConfig(stSettings, stRaceNumber, now)) :
         stCurrentHorses' = horses
  /\ stBankroll' = INITIAL_BANKROLL
  /\ stRaceNumber' = 1
  /\ stHistory' = <<>>
  /\ stCurrentBets' = <<>>
  /\ stCurrentOdds' = Null
  /\ stOddsLoading' = FALSE
  /\ stOddsProgress' = 0
  /\ stRaceInProgress' = FALSE
  /\ stGameOver' = FALSE
  /\ stReturn' = NoCall
  /\ UNCHANGED <<stSettings>>
  /\ UNCHANGED <<simVars, wkVars, prVars, vlVars, odVars, rgVars, lgVars, hkVars, tpVars>>

updateSettings ==
  /\ \E newSettings \in SettingsUpdates :
       stSettings' = MergeSettings(stSettings, newSettings)
  /\ stReturn' = NoCall
  /\ UNCHANGED <<stBankroll, stRaceNumber, stHistory, stCurrentHorses, stCurrentBets,
                 stCurrentOdds, stOddsLoading, stOddsProgress, stRaceInProgress,
                 stGameOver>>
  /\ UNCHANGED <<simVars, wkVars, prVars, vlVars, odVars, rgVars, lgVars, hkVars, tpVars>>

generateNewRace ==
  /\ \E now \in Nows :
       \E horses \in generateHorses(getCurrentRaceConfig(stSettings, stRaceNumber, now)) :
         stCurrentHorses' = horses
  /\ stCurrentBets' = <<>>
  /\ stCurrentOdds' = Null
  /\ stOddsLoading' = FALSE
  /\ stOddsProgress' = 0
  /\ stRaceInProgress' = FALSE
  /\ stReturn' = NoCall
  /\ UNCHANGED <<stBankroll, stRaceNumber, stHistory, stSettings, stGameOver>>
  /\ UNCHANGED <<simVars, wkVars, prVars, vlVars, odVars, rgVars, lgVars, hkVars, tpVars>>

addBet ==
  /\ Len(stCurrentBets) < MaxBets
  /\ \E bet \in StoreBets : stCurrentBets' = Append(stCurrentBets, bet)
  /\ stReturn' = NoCall
  /\ UNCHANGED <<stBankroll, stRaceNumber, stHistory, stSettings, stCurrentHorses,
                 stCurrentOdds, stOddsLoading, stOddsProgress, stRaceInProgress,
                 stGameOver>>
  /\ UNCHANGED <<simVars, wkVars, prVars, vlVars, odVars, rgVars, lgVars, hkVars, tpVars>>

removeBet ==
  /\ \E index \in 0..(MaxBets - 1) : stCurrentBets' = FilterIndex(stCurrentBets, index)
  /\ stReturn' = NoCall
  /\ UNCHANGED <<stBankroll, stRaceNumber, stHistory, stSettings, stCurrentHorses,
                 stCurrentOdds, stOddsLoading, stOddsProgress, stRaceInProgress,
                 stGameOver>>
  /\ UNCHANGED <<simVars, wkVars, prVars, vlVars, odVars, rgVars, lgVars, hkVars, tpVars>>

clearBets ==
  /\ stCurrentBets' = <<>>
  /\ stReturn' = NoCall
  /\ UNCHANGED <<stBankroll, stRaceNumber, stHistory, stSettings, stCurrentHorses,
                 stCurrentOdds, stOddsLoading, stOddsProgress, stRaceInProgress,
                 stGameOver>>
  /\ UNCHANGED <<simVars, wkVars, prVars, vlVars, odVars, rgVars, lgVars, hkVars, tpVars>>

setOdds ==
  /\ \E odds \in StoreOdds : stCurrentOdds' = odds
  /\ stOddsLoading' = FALSE
  /\ stOddsProgress' = 100
  /\ stReturn' = NoCall
  /\ UNCHANGED <<stBankroll, stRaceNumber, stHistory, stSettings, stCurrentHorses,
                 stCurrentBets, stRaceInProgress, stGameOver>>
  /\ UNCHANGED <<simVars, wkVars, prVars, vlVars, odVars, rgVars, lgVars, hkVars, tpVars>>

\* faulty guard: the validation result is ignored
BlockedByOddsOnly == stCurrentOdds = Null

\* the two early returns of runRace
RunRaceBlocked == ~RunRaceValidation.valid \/ stCurrentOdds = Null

runRace ==
  /\ stRaceNumber <= MaxRaces
  /\ IF RunRaceBlocked
     THEN /\ stReturn' = ReturnUndefined
          /\ UNCHANGED <<stBankroll, stRaceNumber, stHistory, stRaceInProgress, stGameOver>>
     ELSE \E now \in Nows :
            LET config == getCurrentRaceConfig(stSettings, stRaceNumber, now)
                finishOrder == simulateRace(stCurrentHorses, config)
                result == resolveRace(stCurrentBets, finishOrder, stCurrentOdds)
                historyEntry == HistoryEntry(config, result)
            IN  /\ stBankroll' = IF stSettings.gameMode = "limited"
                                 THEN MaxZero(historyEntry.bankrollAfter)
                                 ELSE stBankroll
                /\ stRaceNumber' = stRaceNumber + 1
                /\ stHistory' = Append(stHistory, historyEntry)
                /\ stRaceInProgress' = FALSE
                /\ stGameOver' = (stSettings.gameMode = "limited"
                                  /\ LeAmt(historyEntry.bankrollAfter, Pts(0)))
                /\ stReturn' = ReturnEntry(historyEntry)
  /\ UNCHANGED <<stSettings, stCurrentHorses, stCurrentBets, stCurrentOdds,
                 stOddsLoading, stOddsProgress>>
  /\ UNCHANGED <<simVars, wkVars, prVars, vlVars, odVars, rgVars, lgVars, hkVars, tpVars>>

continueAfterGameOver ==
  /\ \E now \in Nows :
       \E horses \in generateHorses(getCurrentRaceConfig(stSettings, stRaceNumber, now)) :
         stCurrentHorses' = horses
  /\ stBankroll' = INITIAL_BANKROLL
  /\ stGameOver' = FALSE
  /\ stCurrentBets' = <<>>
  /\ stCurrentOdds' = Null
  /\ stOddsLoading' = FALSE
  /\ stOddsProgress' = 0
  /\ stRaceInProgress' = FALSE
  /\ stReturn' = NoCall
  /\ UNCHANGED <<stRaceNumber, stHistory, stSettings>>
  /\ UNCHANGED <<simVars, wkVars, prVars, vlVars, odVars, rgVars, lgVars, hkVars, tpVars>>

NextStore ==
  \/ startNewGame
  \/ updateSettings
  \/ generateNewRace
  \/ addBet
  \/ removeBet
  \/ clearBets
  \/ setOdds
  \/ runRace
  \/ continueAfterGameOver

SpecStore == InitStore /\ [][NextStore]_vars

(***************************************************************************)
(* C20: when validateAllBets reports the current bets invalid (an empty    *)
(* bet list included) or currentOdds is null, runRace returns undefined    *)
(* and leaves bankroll, raceNumber, history, currentBets, currentHorses    *)
(* and raceInProgress unchanged.                                           *)
(***************************************************************************)
BlockedRaceChangesNothing ==
  [][(stReturn' # NoCall /\ (~RunRaceValidation.valid \/ stCurrentOdds = Null))
       => /\ stReturn' = ReturnUndefined
          /\ stBankroll' = stBankroll
          /\ stRaceNumber' = stRaceNumber
          /\ stHistory' = stHistory
          /\ stCurrentBets' = stCurrentBets
          /\ stCurrentHorses' = stCurrentHorses
          /\ stRaceInProgress' = stRaceInProgress]_vars

\* runRace has returned undefined for bets that are placed but invalid,
\* with the odds present
BlockedByInvalidBets ==
  /\ stReturn = ReturnUndefined
  /\ stCurrentBets # <<>>
  /\ stCurrentOdds # Null
  /\ ~RunRaceValidation.valid

(***************************************************************************)
(* C21: after every successful runRace in the default configuration the    *)
(* stored bankroll is the bankroll before the race plus the net profit of  *)
(* the race, never below 0; it is the bankrollAfter of the new history     *)
(* entry; and gameOver is true when that bankroll is 0.                    *)
(***************************************************************************)
BankrollFollowsNetProfit ==
  [][(stReturn'.k = "entry" /\ stSettings = DEFAULT_SETTINGS)
       => LET entry == stReturn'.entry
          IN  /\ stBankroll' = MaxZero(AddAmt(stBankroll, entry.result.netProfit))
              /\ stBankroll' = entry.bankrollAfter
              /\ (stBankroll' = Pts(0) => stGameOver')]_vars

(***************************************************************************)
(* C22: pair keys are normalized and triple keys are not.  getQuinellaKey  *)
(* gives the same key for (a, b) and (b, a), the smaller id first;         *)
(* getTrifectaKey keeps the order given; and the estimators record each    *)
(* trial under these keys: for every finish order f of the simulations a   *)
(* quinella bet on (f[0], f[1]) in either order and a trifecta bet on      *)
(* (f[0], f[1], f[2]) find an entry in the odds table built from them.     *)
(***************************************************************************)
Ids == 1..MaxHorses

PairKeysNormalized ==
  \A a \in Ids : \A b \in Ids :
    /\ getQuinellaKey(a, b) = getQuinellaKey(b, a)
    /\ a <= b => getQuinellaKey(a, b) = ToString(a) \o "-" \o ToString(b)

TripleKeysOrdered ==
  \A a \in Ids : \A b \in Ids : \A c \in Ids :
    getTrifectaKey(a, b, c) = ToString(a) \o "-" \o ToString(b) \o "-" \o ToString(c)

Found(map, key) == MapGet(map, key).k = "num"

SimulatedKeysFound ==
  odCall # "none" =>
    /\ PairKeysNormalized
    /\ TripleKeysOrdered
    /\ \A t \in 1..Len(odSimulations) :
         LET f == odSimulations[t]
         IN  /\ Len(f) >= 2 =>
                  /\ Found(odReturn.quinella, getQuinellaKey(f[1], f[2]))
                  /\ Found(odReturn.quinella, getQuinellaKey(f[2], f[1]))
             /\ Len(f) >= 3 =>
                  Found(odReturn.trifecta, getTrifectaKey(f[1], f[2], f[3]))

\* a table built from a trial of three horses whose winner has the larger id
\* of the first two
DescendingTopTwo ==
  /\ odCall # "none"
  /\ \E t \in 1..Len(odSimulations) :
       /\ Len(odSimulations[t]) >= 3
       /\ odSimulations[t][1] > odSimulations[t][2]

(***************************************************************************)
(* race.ts, the legacy engine: calculateFinishTimes.  Its generator keeps  *)
(* the seed as its state unchanged; next() is the same function.  A value  *)
(* of next() is kept to its upper 16 bits, u / 65536, and a time is a      *)
(* whole number of quarter milliseconds.                                   *)
(***************************************************************************)
\* constructor(seed: number) { this.state = seed; }
LegacyRNG(seed) == seed

\* the u of next() = u / 65536 for each of the first n calls, and the state
RECURSIVE NextValues(_, _)
NextValues(state, n) ==
  IF n = 0 THEN <<>>
  ELSE LET r == RngNext(state)
       IN  <<r.out[1]>> \o NextValues(r.state, n - 1)

\* generateHorseSpeeds: rng.nextRange(0.5, 1.5) per horse, in 1 / 65536
generateHorseSpeeds(seed, horseCount) ==
  LET u == NextValues(LegacyRNG(seed), horseCount)
  IN  [i \in 1..horseCount |-> 32768 + u[i]]

\* 5000 / speeds[index], in quarter milliseconds
BaseTime(speed) == (20000 * W16) \div speed

\* rng.nextRange(-500, 500), in quarter milliseconds
Variance(u) == (4000 * u) \div W16 - 2000

\* the horses.map of calculateFinishTimes
FinishTimes(seed, horses) ==
  LET speeds == generateHorseSpeeds(seed, Len(horses))
      u == NextValues(LegacyRNG(seed), Len(horses))
  IN  [i \in 1..Len(horses) |->
         [horseId |-> horses[i].id, finishTime |-> BaseTime(speeds[i]) + Variance(u[i])]]

\* one element put into a list sorted by (a, b) => a.finishTime - b.finishTime,
\* after the elements it does not precede (the sort is stable)
RECURSIVE InsertByTime(_, _)
InsertByTime(sorted, x) ==
  IF sorted = <<>> THEN <<x>>
  ELSE LET last == sorted[Len(sorted)]
       IN  IF x.finishTime - last.finishTime < 0
           THEN Append(InsertByTime(SubSeq(sorted, 1, Len(sorted) - 1), x), last)
           ELSE Append(sorted, x)

\* faulty sort: the list is left in the order of the horses
Unsorted(list, n) == list

\* finishTimes.sort(...): the first n elements, sorted
RECURSIVE SortByTime(_, _)
SortByTime(list, n) ==
  IF n = 0 THEN <<>> ELSE InsertByTime(SortByTime(list, n - 1), list[n])

calculateFinishTimes(seed, horses) ==
  LET finishTimes == SortByTime(FinishTimes(seed, horses), Len(horses))
  IN  [index \in 1..Len(finishTimes) |->
         [horseId |-> finishTimes[index].horseId,
          position |-> index,
          finishTime |-> finishTimes[index].finishTime]]

\* seeds of the legacy engine: the one of the tests and others
LegacySeeds == { <<0, 0>>, <<0, 1>>, <<0, 42>>, <<0, 12345>>, <<65535, 65530>> }

\* the horses argument: up to MaxHorses horses with distinct ids
RECURSIVE DistinctIds(_)
DistinctIds(n) ==
  IF n = 0 THEN {<<>>}
  ELSE { Append(h, id) : h \in DistinctIds(n - 1), id \in 1..MaxHorses }

LegacyHorseLists ==
  { [i \in 1..Len(ids) |-> [id |-> ids[i]]] :
    ids \in { s \in UNION { DistinctIds(n) : n \in 0..MaxHorses } :
              \A i \in 1..Len(s) : \A j \in 1..Len(s) : i # j => s[i] # s[j] } }

InitLegacy ==
  /\ lgSeed \in LegacySeeds
  /\ lgHorses \in LegacyHorseLists
  /\ lgCall = "none"
  /\ lgReturn = <<>>
  /\ SimUnused
  /\ WkUnused
  /\ PrUnused
  /\ VlUnused
  /\ OdUnused
  /\ RgUnused
  /\ StUnused
  /\ HkUnused
  /\ TpUnused

CalculateFinishTimes ==
  /\ lgCall = "none"
  /\ lgReturn' = calculateFinishTimes(lgSeed, lgHorses)
  /\ lgCall' = "calculateFinishTimes"
  /\ UNCHANGED <<lgSeed, lgHorses, simVars, wkVars, prVars, vlVars, odVars, rgVars, stVars, hkVars, tpVars>>

NextLegacy == CalculateFinishTimes

SpecLegacy == InitLegacy /\ [][NextLegacy]_vars

(***************************************************************************)
(* C23: for any seed and any list of N horses calculateFinishTimes returns *)
(* one result per horse, every horse id exactly once, every position 1..N  *)
(* exactly once, in non-decreasing finish time by position.                *)
(***************************************************************************)
FinishTimesRanked ==
  lgCall = "calculateFinishTimes" =>
    /\ Len(lgReturn) = Len(lgHorses)
    /\ \A i \in 1..Len(lgHorses) :
         Cardinality({ k \in 1..Len(lgReturn) : lgReturn[k].horseId = lgHorses[i].id }) = 1
    /\ \A p \in 1..Len(lgHorses) :
         Cardinality({ k \in 1..Len(lgReturn) : lgReturn[k].position = p }) = 1
    /\ \A k \in 1..Len(lgReturn) : \A l \in 1..Len(lgReturn) :
         lgReturn[k].position < lgReturn[l].position
           => lgReturn[k].finishTime <= lgReturn[l].finishTime

\* a full field whose results are not in the order of the horses
FieldReordered ==
  /\ lgCall = "calculateFinishTimes"
  /\ Len(lgHorses) = MaxHorses
  /\ \E k \in 1..Len(lgReturn) : lgReturn[k].horseId # lgHorses[k].id

(***************************************************************************)
(* C24: each selection step of the race simulator returns a member of the  *)
(* remaining pool.  With u = rng.next() * (total weight of the pool) it    *)
(* walks the pool in ascending original index and selects the first        *)
(* candidate at which the running subtraction of weights from u reaches    *)
(* <= 0, and the last candidate of the pool when none does; a horse        *)
(* already placed is never selected again.                                 *)
(***************************************************************************)
RECURSIVE Running(_, _, _, _)
\* u less the weights of the first k candidates of the pool
Running(pool, weights, u, k) ==
  IF k = 0 THEN u ELSE SubW(Running(pool, weights, u, k - 1), weights[pool[k]])

Members(seq) == { seq[i] : i \in 1..Len(seq) }

SelectionFollowsWalk ==
  [][(simPc = "loop" /\ Len(simLocals.remaining) > 0)
       => LET pool == simLocals.remaining
              u == ScaleByNext(RngNext(simLocals.rng).out, TotalWeight(pool, simWeights, 1))
              hits == { k \in 1..Len(pool) : LeZero(Running(pool, simWeights, u, k)) }
              sel == IF hits = {} THEN pool[Len(pool)]
                     ELSE pool[CHOOSE k \in hits : \A l \in hits : k <= l]
          IN  /\ \A i \in 1..Len(pool) : \A j \in 1..Len(pool) : i < j => pool[i] < pool[j]
              /\ sel \in Members(pool)
              /\ simHorses[sel].id \notin Members(simLocals.finishOrder)
              /\ simLocals'.finishOrder = Append(simLocals.finishOrder, simHorses[sel].id)
              /\ Members(simLocals'.remaining) = Members(pool) \ {sel}
              /\ Len(simLocals'.remaining) = Len(pool) - 1]_vars

\* the first draw from a field of three took the middle candidate, and the
\* second draw has been made
MiddleCandidateDrawn ==
  /\ simPc = "loop"
  /\ Len(simHorses) = 3
  /\ Len(simLocals.finishOrder) = 2
  /\ simLocals.finishOrder[1] = simHorses[2].id

(***************************************************************************)
(* C25: the quinella and trifecta probability maps are sparse and exact.   *)
(* A key is present exactly when that unordered top-2 pair (ordered top-3  *)
(* triple) occurred in at least one of the T trials, its value is          *)
(* occurrences / T and is > 0, and the values of each map sum to 1.        *)
(***************************************************************************)
RECURSIVE SumOver(_, _)
SumOver(map, keys) ==
  IF keys = {} THEN Rat(0, 1)
  ELSE LET k == CHOOSE x \in keys : TRUE
       IN  RAdd(map[k], SumOver(map, keys \ {k}))

\* the trials whose first two finishers are a and b in either order
PairTrials(a, b) ==
  { t \in 1..Len(odSimulations) :
      {At(odSimulations[t], 1), At(odSimulations[t], 2)} = {a, b} }

\* the trials whose first three finishers are a, b, c in this order
TripleTrials(a, b, c) ==
  { t \in 1..Len(odSimulations) :
      <<At(odSimulations[t], 1), At(odSimulations[t], 2), At(odSimulations[t], 3)>>
        = <<a, b, c>> }

PairKey(a, b) == ToString(a) \o "-" \o ToString(b)
TripleKey(a, b, c) == ToString(a) \o "-" \o ToString(b) \o "-" \o ToString(c)

QuinellaMapExact ==
  LET probs == estimateQuinellaProbabilities(odSimulations)
      T == Len(odSimulations)
  IN  /\ DOMAIN probs \subseteq { PairKey(a, b) : a \in Ids, b \in Ids }
      /\ \A a \in Ids : \A b \in Ids :
           a < b =>
             /\ PairKey(a, b) \in DOMAIN probs <=> PairTrials(a, b) # {}
             /\ PairKey(b, a) \notin DOMAIN probs
             /\ PairTrials(a, b) # {} =>
                  /\ probs[PairKey(a, b)] = Rat(Cardinality(PairTrials(a, b)), T)
                  /\ RLt(Rat(0, 1), probs[PairKey(a, b)])
      /\ SumOver(probs, DOMAIN probs) = Rat(1, 1)
      /\ DOMAIN odReturn.quinella = DOMAIN probs

TrifectaMapExact ==
  LET probs == estimateTrifectaProbabilities(odSimulations)
      T == Len(odSimulations)
  IN  /\ DOMAIN probs \subseteq { TripleKey(a, b, c) : a \in Ids, b \in Ids, c \in Ids }
      /\ \A a \in Ids : \A b \in Ids : \A c \in Ids :
           /\ TripleKey(a, b, c) \in DOMAIN probs <=> TripleTrials(a, b, c) # {}
           /\ TripleTrials(a, b, c) # {} =>
                /\ probs[TripleKey(a, b, c)] = Rat(Cardinality(TripleTrials(a, b, c)), T)
                /\ RLt(Rat(0, 1), probs[TripleKey(a, b, c)])
      /\ SumOver(probs, DOMAIN probs) = Rat(1, 1)
      /\ DOMAIN odReturn.trifecta = DOMAIN probs

SparseExactMaps ==
  odCall # "none" =>
    /\ Len(odHorses) >= 2 => QuinellaMapExact
    /\ Len(odHorses) >= 3 => TrifectaMapExact

\* two trials of a field of three with different top pairs: two keys of
\* probability 1/2 and one pair without a key
TwoPairsOccurred ==
  /\ odCall # "none"
  /\ Len(odHorses) = 3
  /\ Len(odSimulations) = 2
  /\ Cardinality(DOMAIN odReturn.quinella) = 2

(***************************************************************************)
(* C26: validateAllBets returns every error found.  valid is true exactly  *)
(* when errors is empty; errors holds exactly one message for each bet of  *)
(* the batch that fails validateBet, in batch order and labelled with the  *)
(* 1-based position of the bet; an empty batch is reported invalid.        *)
(***************************************************************************)
\* the verdict of validateBet on bet i of the batch, given the stakes of the
\* earlier bets that passed
VerdictOn(i) ==
  LET passed[j \in 0..Len(vlBets)] ==
        IF j = 0 THEN Pts(0)
        ELSE IF validateBet(vlBets[j], vlBankroll, passed[j - 1],
                            vlMaxBetPercentage, vlMinBet).valid
             THEN AddAmt(passed[j - 1], vlBets[j].stake)
             ELSE passed[j - 1]
  IN  validateBet(vlBets[i], vlBankroll, passed[i - 1], vlMaxBetPercentage, vlMinBet)

\* the positions of the bets that fail, ascending
FailingPositions ==
  LET F[i \in 0..Len(vlBets)] ==
        IF i = 0 THEN <<>>
        ELSE IF VerdictOn(i).valid THEN F[i - 1] ELSE Append(F[i - 1], i)
  IN  F[Len(vlBets)]

EveryErrorReturned ==
  vlCall = "validateAllBets" =>
    /\ vlReturn.valid <=> Len(vlReturn.errors) = 0
    /\ Len(vlBets) = 0 => ~vlReturn.valid
    /\ Len(vlBets) > 0 =>
         /\ Len(vlReturn.errors) = Len(FailingPositions)
         /\ \A k \in 1..Len(FailingPositions) :
              vlReturn.errors[k] =
                "Bet " \o ToString(FailingPositions[k]) \o ": "
                  \o VerdictOn(FailingPositions[k]).error

\* both bets of a batch failed, for different reasons
TwoErrorsReturned ==
  /\ vlCall = "validateAllBets"
  /\ Len(vlBets) = 2
  /\ Len(vlReturn.errors) = 2
  /\ VerdictOn(1).error # VerdictOn(2).error

(***************************************************************************)
(* App.tsx, useOddsWorker.ts and the worker: the odds of the current race. *)
(* An event (a click, a message from the worker) is one step: the handler  *)
(* and the effects that run on the states it changed, in the order the     *)
(* component declares them.  The worker handles one request per step.      *)
(***************************************************************************)
\* the handler of the worker on one request: the messages it posts
RECURSIVE HandlerLoop(_, _, _, _)
HandlerLoop(request, batch, allSimulations, posted) ==
  IF batch >= request.numTrials
  THEN Append(posted, WorkerResultMessage(request.horses, request.config, allSimulations))
  ELSE LET all == allSimulations
                    \o BatchSimulations(request.horses, request.config, request.numTrials, batch)
       IN  HandlerLoop(request, batch + BatchSize(request.numTrials), all,
                       Append(posted, ProgressMessage(Len(all), request.numTrials)))

\* self.postMessage({ type: 'error', error: String(error) })
ErrorMessage == [type |-> "error"]

\* what the handler posts: the try block completes, or it throws (a
\* RangeError of push(...batchSimulations), memory) and the catch block posts
WorkerPosts(request, thrown) ==
  IF thrown THEN <<ErrorMessage>> ELSE HandlerLoop(request, 0, <<>>, <<>>)

\* the OddsTable the hook builds from a result message
OddsTableOf(message) ==
  [win |-> message.winOdds,
   place |-> message.placeOdds,
   quinella |-> message.quinellaOdds,
   trifecta |-> message.trifectaOdds]

\* requests at the worker and answers on their way to the hook
Pending ==
  Len(hkRequests) + Cardinality({ i \in 1..Len(hkMessages) : hkMessages[i].type # "progress" })

InitApp ==
  /\ SimUnused
  /\ WkUnused
  /\ PrUnused
  /\ VlUnused
  /\ OdUnused
  /\ RgUnused
  /\ LgUnused
  /\ TpUnused
  /\ stBankroll = INITIAL_BANKROLL
  /\ stRaceNumber = 1
  /\ stHistory = <<>>
  /\ stSettings = DEFAULT_SETTINGS
  /\ stCurrentHorses = <<>>
  /\ stCurrentBets = <<>>
  /\ stCurrentOdds = Null
  /\ stOddsLoading = FALSE
  /\ stOddsProgress = 0
  /\ stRaceInProgress = FALSE
  /\ stGameOver = FALSE
  /\ stReturn = NoCall
  /\ hkLoading = FALSE
  /\ hkProgress = 0
  /\ hkOdds = Null
  /\ hkRequests = <<>>
  /\ hkMessages = <<>>

\* the effect on [currentHorses] after the store has set new horses and null
\* odds: calculateOdds, then the effects on [workerLoading] and
\* [workerProgress]; the store's oddsLoading and oddsProgress were reset
HorsesChanged(horses, now) ==
  IF Len(horses) > 0
  THEN /\ hkLoading' = TRUE
       /\ hkProgress' = 0
       /\ hkOdds' = Null
       /\ hkRequests' = Append(hkRequests,
                               [horses |-> horses,
                                config |-> getCurrentRaceConfig(stSettings, stRaceNumber', now),
                                numTrials |-> stSettings.monteCarloTrials])
       /\ stOddsLoading' = (hkLoading # TRUE)
       /\ stOddsProgress' = 0
  ELSE /\ stOddsLoading' = FALSE
       /\ stOddsProgress' = 0
       /\ UNCHANGED <<hkLoading, hkProgress, hkOdds, hkRequests>>

\* startNewGame from the mount effect or the New Game button
ClickStartNewGame ==
  /\ Pending < MaxPending
  /\ \E now \in Nows :
       \E horses \in generateHorses(getCurrentRaceConfig(stSettings, stRaceNumber, now)) :
         /\ stCurrentHorses' = horses
         /\ stRaceNumber' = 1
         /\ HorsesChanged(horses, now)
  /\ stBankroll' = INITIAL_BANKROLL
  /\ stHistory' = <<>>
  /\ stCurrentBets' = <<>>
  /\ stCurrentOdds' = Null
  /\ stRaceInProgress' = FALSE
  /\ stGameOver' = FALSE
  /\ stReturn' = NoCall
  /\ UNCHANGED <<stSettings, hkMessages>>
  /\ UNCHANGED <<simVars, wkVars, prVars, vlVars, odVars, rgVars, lgVars, tpVars>>

\* handleNextRace: generateNewRace
ClickNextRace ==
  /\ Pending < MaxPending
  /\ \E now \in Nows :
       \E horses \in generateHorses(getCurrentRaceConfig(stSettings, stRaceNumber, now)) :
         /\ stCurrentHorses' = horses
         /\ stRaceNumber' = stRaceNumber
         /\ HorsesChanged(horses, now)
  /\ stCurrentBets' = <<>>
  /\ stCurrentOdds' = Null
  /\ stRaceInProgress' = FALSE
  /\ stReturn' = NoCall
  /\ UNCHANGED <<stBankroll, stHistory, stSettings, stGameOver, hkMessages>>
  /\ UNCHANGED <<simVars, wkVars, prVars, vlVars, odVars, rgVars, lgVars, tpVars>>

\* self.onmessage of the worker on the oldest request
WorkerHandle ==
  /\ hkRequests # <<>>
  /\ \/ hkMessages' = hkMessages \o WorkerPosts(Head(hkRequests), TRUE)
     \/ hkMessages' = hkMessages \o WorkerPosts(Head(hkRequests), FALSE)
  /\ hkRequests' = Tail(hkRequests)
  /\ UNCHANGED <<hkLoading, hkProgress, hkOdds>>
  /\ UNCHANGED <<simVars, wkVars, prVars, vlVars, odVars, rgVars, lgVars, stVars, tpVars>>

\* workerRef.current.onmessage on the oldest message, and the effects on
\* [workerLoading], [workerProgress] and [workerOdds]
HookOnMessage ==
  /\ hkMessages # <<>>
  /\ LET message == Head(hkMessages)
     IN  CASE message.type = "progress" ->
                /\ hkProgress' = message.progress
                /\ stOddsProgress' = IF message.progress # hkProgress
                                     THEN message.progress ELSE stOddsProgress
                /\ UNCHANGED <<hkLoading, hkOdds, stCurrentOdds, stOddsLoading>>
           [] message.type = "result" ->
                /\ hkOdds' = OddsTableOf(message)
                /\ hkLoading' = FALSE
                /\ stCurrentOdds' = OddsTableOf(message)
                /\ stOddsLoading' = FALSE
                /\ stOddsProgress' = 100
                /\ UNCHANGED <<hkProgress>>
           [] OTHER ->
                UNCHANGED <<hkLoading, hkProgress, hkOdds, stCurrentOdds, stOddsLoading,
                            stOddsProgress>>
  /\ hkMessages' = Tail(hkMessages)
  /\ UNCHANGED <<hkRequests, stBankroll, stRaceNumber, stHistory, stSettings,
                 stCurrentHorses, stCurrentBets, stRaceInProgress, stGameOver, stReturn>>
  /\ UNCHANGED <<simVars, wkVars, prVars, vlVars, odVars, rgVars, lgVars, tpVars>>

NextApp ==
  \/ ClickStartNewGame
  \/ ClickNextRace
  \/ WorkerHandle
  \/ HookOnMessage

SpecApp == InitApp /\ [][NextApp]_vars

\* the worker handles every request it was sent and every message it posts
\* is delivered
SpecAppFair == SpecApp /\ WF_vars(WorkerHandle) /\ WF_vars(HookOnMessage)

(***************************************************************************)
(* C27: odds never go stale across races.  Whenever the store's            *)
(* currentOdds is non-null it was computed from the store's currentHorses, *)
(* under every interleaving of generateNewRace / startNewGame,             *)
(* calculateOdds requests and worker result messages.                      *)
(***************************************************************************)
\* the tables the worker computes from these horses under the store's
\* settings
TablesFrom(horses) ==
  { LET posted == HandlerLoop([horses |-> horses,
                               config |-> getCurrentRaceConfig(stSettings, stRaceNumber, now),
                               numTrials |-> stSettings.monteCarloTrials],
                              0, <<>>, <<>>)
    IN  OddsTableOf(posted[Len(posted)]) : now \in Nows }

OddsOfCurrentHorses ==
  stCurrentOdds # Null => stCurrentOdds \in TablesFrom(stCurrentHorses)

(***************************************************************************)
(* C28: every calculateOdds request that sets loading = true is eventually *)
(* followed by loading = false, whatever message the worker posts to end   *)
(* the request (a result, or an error after a failure).                    *)
(***************************************************************************)
LoadingEventuallyEnds == hkLoading ~> ~hkLoading

(***************************************************************************)
(* C29: from the initial store and after any sequence of the store's       *)
(* actions, history.length = raceNumber - 1 and the k-th history entry has *)
(* raceNumber k; only a successful runRace appends an entry and increments *)
(* raceNumber, each by exactly one.                                        *)
(***************************************************************************)
HistoryMatchesRaceNumber ==
  /\ Len(stHistory) = stRaceNumber - 1
  /\ \A k \in 1..Len(stHistory) : stHistory[k].raceNumber = k

\* a step that makes the history longer or the race number larger is a
\* runRace that returned the entry it appended
GrowthIsOneRace ==
  (Len(stHistory') > Len(stHistory) \/ stRaceNumber' > stRaceNumber)
    => /\ stReturn'.k = "entry"
       /\ stHistory' = Append(stHistory, stReturn'.entry)
       /\ stRaceNumber' = stRaceNumber + 1

\* a runRace that returns undefined and every other action but startNewGame
\* leave the history and the race number alone
OnlyNewGameResets ==
  (stHistory' # stHistory \/ stRaceNumber' # stRaceNumber)
    => \/ stReturn'.k = "entry"
       \/ stHistory' = <<>> /\ stRaceNumber' = 1

SliceLast(data, n) ==
  IF Len(data) <= n THEN data ELSE SubSeq(data, Len(data) - n + 1, Len(data))

\* recordRace that drops the newest race of a full history
recordRaceDropNewest(raceHistory, dataPoint) ==
  LET pushed == Append(raceHistory, dataPoint)
  IN  IF Len(pushed) > MAX_HISTORY THEN SubSeq(pushed, 1, Len(pushed) - 1) ELSE pushed

\* recordRace: this.raceHistory after push and shift
recordRace(raceHistory, dataPoint) ==
  LET pushed == Append(raceHistory, dataPoint)
  IN  IF Len(pushed) > MAX_HISTORY THEN Tail(pushed) ELSE pushed

\* evaluatePrediction: predictionAccuracy after the call
evaluatePrediction(accuracy, prediction, actualResult) ==
  LET counted == [accuracy EXCEPT !.totalPredictions = @ + 1]
      predicted == prediction.horses
      actual == SubSeq(actualResult, 1, Min(3, Len(actualResult)))
      matches == Cardinality({ i \in 1..Len(actual) :
                               \E j \in 1..Len(predicted) : predicted[j] = actual[i] })
  IN  IF predicted = actual
      THEN [counted EXCEPT !.exactMatches = @ + 1]
      ELSE IF matches = 2
      THEN [counted EXCEPT !.partialMatches = @ + 1]
      ELSE IF matches = 1
      THEN [counted EXCEPT !.singleMatches = @ + 1]
      ELSE counted

\* exportHistory: the arrays after the call and the name of the array returned
exportHistory(arrays) ==
  [arrays |-> [arrays EXCEPT !.exported = arrays.raceHistory], returned |-> "exported"]

\* importHistory: this.raceHistory is a new array
importHistory(arrays, data) ==
  [arrays EXCEPT !.raceHistory = SliceLast(data, MAX_HISTORY)]

\* the races recorded: a race number and a finish order
DataPoints ==
  { [raceNumber |-> 1, actualResult |-> <<1, 2, 3>>],
    [raceNumber |-> 2, actualResult |-> <<2, 1, 4>>] }

\* the top predictions predict stores
Predictions ==
  { [horses |-> <<1, 2, 3>>], [horses |-> <<1, 5, 6>>] }

\* the arrays a caller passes to importHistory
ImportedData ==
  UNION { [1..n -> DataPoints] : n \in 0..(MAX_HISTORY + 1) }

\* what a caller can do to an array it holds: push, pop, reverse, assign
Modifications(array) ==
  ( { Append(array, dataPoint) : dataPoint \in DataPoints }
    \cup { SubSeq(array, 1, Len(array) - 1) }
    \cup { [i \in 1..Len(array) |-> array[Len(array) + 1 - i]] }
    \cup { [array EXCEPT ![1] = dataPoint] : dataPoint \in DataPoints } )
  \ { array }

InitPredictor ==
  /\ SimUnused
  /\ WkUnused
  /\ PrUnused
  /\ VlUnused
  /\ OdUnused
  /\ RgUnused
  /\ StUnused
  /\ LgUnused
  /\ HkUnused
  /\ tpArrays = [raceHistory |-> <<>>, exported |-> <<>>]
  /\ tpExported = "none"
  /\ tpLastPrediction = Null
  /\ tpAccuracy = [totalPredictions |-> 0, exactMatches |-> 0, partialMatches |-> 0,
                   singleMatches |-> 0]
  /\ tpRecorded = <<>>

\* predict stores its top prediction
Predict ==
  /\ \E prediction \in Predictions : tpLastPrediction' = prediction
  /\ UNCHANGED <<tpArrays, tpExported, tpAccuracy, tpRecorded>>
  /\ UNCHANGED <<simVars, wkVars, prVars, vlVars, odVars, rgVars, stVars, lgVars, hkVars>>

RecordRace ==
  /\ Len(tpRecorded) < MaxRecorded
  /\ tpAccuracy.totalPredictions < MaxRecorded
  /\ \E dataPoint \in DataPoints :
       /\ tpArrays' = [tpArrays EXCEPT !.raceHistory = recordRace(@, dataPoint)]
       /\ tpAccuracy' = IF tpLastPrediction # Null
                        THEN evaluatePrediction(tpAccuracy, tpLastPrediction,
                                                dataPoint.actualResult)
                        ELSE tpAccuracy
       /\ tpRecorded' = Append(tpRecorded, dataPoint)
  /\ UNCHANGED <<tpExported, tpLastPrediction>>
  /\ UNCHANGED <<simVars, wkVars, prVars, vlVars, odVars, rgVars, stVars, lgVars, hkVars>>

ImportHistory ==
  /\ \E data \in ImportedData :
       /\ tpArrays' = importHistory(tpArrays, data)
       /\ tpRecorded' = data
  /\ UNCHANGED <<tpExported, tpLastPrediction, tpAccuracy>>
  /\ UNCHANGED <<simVars, wkVars, prVars, vlVars, odVars, rgVars, stVars, lgVars, hkVars>>

ExportHistory ==
  /\ LET call == exportHistory(tpArrays)
     IN  /\ tpArrays' = call.arrays
         /\ tpExported' = call.returned
  /\ UNCHANGED <<tpLastPrediction, tpAccuracy, tpRecorded>>
  /\ UNCHANGED <<simVars, wkVars, prVars, vlVars, odVars, rgVars, stVars, lgVars, hkVars>>

\* the caller of exportHistory modifies the array it was given
ModifyExported ==
  /\ tpExported # "none"
  /\ \E modified \in Modifications(tpArrays[tpExported]) :
       /\ Len(modified) <= MAX_HISTORY + 1
       /\ tpArrays' = [tpArrays EXCEPT ![tpExported] = modified]
  /\ UNCHANGED <<tpExported, tpLastPrediction, tpAccuracy, tpRecorded>>
  /\ UNCHANGED <<simVars, wkVars, prVars, vlVars, odVars, rgVars, stVars, lgVars, hkVars>>

NextPredictor ==
  \/ Predict
  \/ RecordRace
  \/ ImportHistory
  \/ ExportHistory
  \/ ModifyExported

SpecPredictor == InitPredictor /\ [][NextPredictor]_vars

(***************************************************************************)
(* C30: after any sequence of recordRace and importHistory calls the       *)
(* history holds at most MAX_HISTORY races, the most recently recorded     *)
(* ones in recording order (the oldest is dropped first); exportHistory    *)
(* returns a copy: modifying the returned array does not change the stored *)
(* history.                                                                *)
(***************************************************************************)
HistoryIsMostRecent ==
  /\ Len(tpArrays.raceHistory) <= MAX_HISTORY
  /\ tpArrays.raceHistory = SliceLast(tpRecorded, MAX_HISTORY)

ExportedIsCopy ==
  ModifyExported => tpArrays'.raceHistory = tpArrays.raceHistory

HistoryKeepsLatestRaces ==
  /\ []HistoryIsMostRecent
  /\ [][ExportedIsCopy]_vars

\* witness: a race was dropped from a full history, and the exported array
\* has been modified since
OldestDroppedCopyModified ==
  /\ Len(tpRecorded) > MAX_HISTORY
  /\ Len(tpArrays.raceHistory) = MAX_HISTORY
  /\ tpExported = "exported"
  /\ tpArrays.exported # tpArrays.raceHistory

====
